---- MODULE Spec2Model ----
(***************************************************************************)
(* Querio: the condition/statement compiler (QueryBuilder) and the         *)
(* relation materializer (Repository.loadRelations).                       *)
(*                                                                         *)
(* SQL text is a sequence of tokens; a token is a record [t, s, n]:        *)
(* keyword, column name, or placeholder $n.  A JavaScript value is a       *)
(* record [k, n, xs, ops]: undefined, a number, an array of numbers, or a  *)
(* plain object of operator entries.                                       *)
(***************************************************************************)
EXTENDS Integers, Sequences, FiniteSets, TLC

VARIABLES compiled,
          whereConditions, havingConditions, groupByFields,
          limitValue, offsetValue, query,
          db, registered, request, heap, stack, stage, log, diag,
          mapping, paging, tx, pool

compileVars == <<compiled>>
builderVars == <<whereConditions, havingConditions, groupByFields,
                 limitValue, offsetValue, query>>
loaderVars == <<db, registered, request, heap, stack, stage, log, diag>>
auxVars == <<mapping, paging, tx, pool>>
vars == <<compiled, whereConditions, havingConditions, groupByFields,
          limitValue, offsetValue, query,
          db, registered, request, heap, stack, stage, log, diag,
          mapping, paging, tx, pool>>

\* ------------------------------------------------------------ bounds
MaxVal == 3
MaxStart == 2

Vals == 1..MaxVal
FieldNames == {"a", "b", "c"}

\* ------------------------------------------------------------ values
Undef == [k |-> "undef", n |-> 0, xs |-> <<>>, ops |-> <<>>]
Num(v) == [k |-> "num", n |-> v, xs |-> <<>>, ops |-> <<>>]
Arr(xs) == [k |-> "array", n |-> 0, xs |-> xs, ops |-> <<>>]
OpObj(ops) == [k |-> "object", n |-> 0, xs |-> <<>>, ops |-> ops]
OpEntry(op, val) == [op |-> op, val |-> val]
Null == [k |-> "null", n |-> 0, xs |-> <<>>, ops |-> <<>>]
\* a Date: an object that is not an operator object and has no own entry
DateValue(v) == [k |-> "date", n |-> v, xs |-> <<>>, ops |-> <<>>]

\* typeof value === 'object' && value !== null && !Array.isArray(value)
IsObject(value) == value.k \in {"object", "date"}

\* ------------------------------------------------------------ tokens
Tok(t, s, n) == [t |-> t, s |-> s, n |-> n]
Kw(s) == Tok("kw", s, 0)
Col(c) == Tok("col", c, 0)
Ph(n) == Tok("ph", "$", n)
LP == Kw("(")
RP == Kw(")")
Comma == Kw(",")

RECURSIVE Join(_, _)
\* Array.prototype.join on a list of token sequences
Join(parts, sep) ==
  IF Len(parts) = 0 THEN <<>>
  ELSE IF Len(parts) = 1 THEN parts[1]
  ELSE parts[1] \o <<sep>> \o Join(Tail(parts), sep)

\* ------------------------------------------------------------ conditions
\* A WhereCondition object: its field entries in insertion order, and the
\* AND / OR keys (has* = key present with an array value).
Node(es, hasAnd, ands, hasOr, ors) ==
  [fields |-> es, hasAND |-> hasAnd, AND |-> ands, hasOR |-> hasOr, OR |-> ors]
Entry(f, v) == [field |-> f, value |-> v]
Fields(es) == Node(es, FALSE, <<>>, FALSE, <<>>)
AndNode(cs) == Node(<<>>, TRUE, cs, FALSE, <<>>)
OrNode(cs) == Node(<<>>, FALSE, <<>>, TRUE, cs)

camelToSnake(str) ==
  CASE str = "userId" -> "user_id"
    [] str = "postId" -> "post_id"
    [] str = "teamId" -> "team_id"
    [] str = "tagId" -> "tag_id"
    [] OTHER -> str

\* QueryBuilder.getColumnName with the empty fieldsDefinition the
\* repository passes
getColumnName(field) == camelToSnake(field)

getSQLOperator(operator) ==
  CASE operator = "eq" -> "="
    [] operator = "ne" -> "!="
    [] operator = "gt" -> ">"
    [] operator = "gte" -> ">="
    [] operator = "lt" -> "<"
    [] operator = "lte" -> "<="
    [] operator = "like" -> "LIKE"
    [] operator = "ilike" -> "ILIKE"
    [] operator = "in" -> "IN"
    [] operator = "notIn" -> "NOT IN"
    [] operator = "isNull" -> "IS NULL"
    [] operator = "isNotNull" -> "IS NOT NULL"
    [] OTHER -> "="

\* accumulator of the forEach loops: clauses pushed so far, the shared
\* params list, the running index
Acc(cl, params, idx) == [cl |-> cl, params |-> params, idx |-> idx]

\* one operator entry of an operator object (index.ts 603-615)
OperatorStep(acc, columnName, e) ==
  IF e.op = "in" \/ e.op = "notIn" THEN
    Acc(Append(acc.cl,
               <<Col(columnName), Kw(getSQLOperator(e.op)), LP>>
                 \o Join([i \in 1..Len(e.val.xs) |-> <<Ph(acc.idx + i - 1)>>], Comma)
                 \o <<RP>>),
        acc.params \o [i \in 1..Len(e.val.xs) |-> Num(e.val.xs[i])],
        acc.idx + Len(e.val.xs))
  ELSE IF e.op = "isNull" \/ e.op = "isNotNull" THEN
    Acc(Append(acc.cl, <<Col(columnName), Kw(getSQLOperator(e.op))>>),
        acc.params, acc.idx)
  ELSE
    Acc(Append(acc.cl, <<Col(columnName), Kw(getSQLOperator(e.op)), Ph(acc.idx)>>),
        Append(acc.params, e.val), acc.idx + 1)

RECURSIVE OperatorLoop(_, _, _, _)
OperatorLoop(acc, columnName, ops, i) ==
  IF i > Len(ops) THEN acc
  ELSE OperatorLoop(OperatorStep(acc, columnName, ops[i]), columnName, ops, i + 1)

\* FieldStep with the placeholder index not advanced after an equality
FieldStepNoIncrement(acc, e) ==
  IF e.value.k = "undef" THEN acc
  ELSE IF IsObject(e.value)
    THEN OperatorLoop(acc, getColumnName(e.field), e.value.ops, 1)
  ELSE Acc(Append(acc.cl, <<Col(getColumnName(e.field)), Kw("="), Ph(acc.idx)>>),
           Append(acc.params, e.value), acc.idx)

\* one [field, value] entry of a condition object (index.ts 595-622)
FieldStep(acc, e) ==
  IF e.value.k = "undef" THEN acc
  ELSE IF IsObject(e.value)
    THEN OperatorLoop(acc, getColumnName(e.field), e.value.ops, 1)
  ELSE Acc(Append(acc.cl, <<Col(getColumnName(e.field)), Kw("="), Ph(acc.idx)>>),
           Append(acc.params, e.value), acc.idx + 1)

RECURSIVE FieldLoop(_, _, _)
FieldLoop(acc, es, i) ==
  IF i > Len(es) THEN acc
  ELSE FieldLoop(FieldStep(acc, es[i]), es, i + 1)

Result(clause, params, next) ==
  [clause |-> clause, params |-> params, nextParamIndex |-> next]

\* Keep without the `if (result.clause)` test
KeepAlways(acc, result) ==
  Acc(Append(acc.cl, result.clause), result.params, result.nextParamIndex)

\* `if (result.clause) { clauses.push(result.clause); index = result.next }`:
\* a child's clause and index are kept only when its clause is not empty;
\* params is the one list every call appends to
Keep(acc, result) ==
  IF result.clause # <<>>
    THEN Acc(Append(acc.cl, result.clause), result.params, result.nextParamIndex)
    ELSE Acc(acc.cl, result.params, acc.idx)

\* the return of the AND / OR branches: the clauses joined and parenthesised
Grouped(r, junction) ==
  Result(IF Len(r.cl) > 0 THEN <<LP>> \o Join(r.cl, Kw(junction)) \o <<RP>> ELSE <<>>,
         r.params, r.idx)

\* the return of the field branch and of buildWhereClause
Joined(r) == Result(Join(r.cl, Kw("AND")), r.params, r.idx)

RECURSIVE buildSingleCondition(_, _, _)
RECURSIVE SubLoop(_, _, _)
\* the forEach over the children of AND / OR, or over the builder's conditions
SubLoop(acc, subs, i) ==
  IF i > Len(subs) THEN acc
  ELSE LET result == buildSingleCondition(subs[i], acc.params, acc.idx) IN
       SubLoop(Keep(acc, result), subs, i + 1)

buildSingleCondition(condition, params, paramIndex) ==
  IF condition.hasAND
    THEN Grouped(SubLoop(Acc(<<>>, params, paramIndex), condition.AND, 1), "AND")
  ELSE IF condition.hasOR
    THEN Grouped(SubLoop(Acc(<<>>, params, paramIndex), condition.OR, 1), "OR")
  ELSE Joined(FieldLoop(Acc(<<>>, params, paramIndex), condition.fields, 1))

\* buildWhereClause: the conditions of the builder joined with AND
buildWhereClause(conditions, params, startIndex) ==
  Joined(SubLoop(Acc(<<>>, params, startIndex), conditions, 1))

\* ------------------------------------------------------------ input trees
InLists == {<<>>} \cup {<<v>> : v \in Vals}
           \cup {p \in Vals \X Vals : p[1] < p[2]}
OpValues ==
  {OpObj(<<OpEntry("gt", Num(v))>>) : v \in Vals}
  \cup {OpObj(<<OpEntry("in", Arr(xs))>>) : xs \in InLists}
  \cup {OpObj(<<OpEntry("notIn", Arr(<<1>>))>>),
        OpObj(<<OpEntry("isNull", Num(1))>>),
        OpObj(<<OpEntry("gte", Num(1)), OpEntry("lte", Num(2))>>),
        OpObj(<<OpEntry("between", Num(2))>>),
        OpObj(<<>>)}
SimpleLeaves == {Fields(<<Entry(f, Num(v))>>) : f \in FieldNames, v \in Vals}
OpLeaves == {Fields(<<Entry("b", x)>>) : x \in OpValues}
EmptyLeaves == {Fields(<<>>), Fields(<<Entry("a", Undef)>>)}
PairLeaves ==
  {Fields(<<Entry("a", x), Entry("c", Num(v))>>) :
     x \in {Undef, Num(1), OpObj(<<OpEntry("lt", Num(2))>>)}, v \in Vals}
LiteralLeaves ==
  {Fields(<<Entry("a", x)>>) : x \in {Null, Arr(<<1, 2>>), DateValue(1)}}
Leaves == SimpleLeaves \cup OpLeaves \cup EmptyLeaves \cup PairLeaves \cup LiteralLeaves

ListsOf(S) == {<<>>} \cup {<<x>> : x \in S} \cup {<<x, y>> : x \in S, y \in S}

MixedFields == {<<Entry("a", Num(v))>> : v \in Vals}
Depth1 ==
  {AndNode(l) : l \in ListsOf(Leaves)}
  \cup {OrNode(l) : l \in ListsOf(Leaves)}
  \cup {Node(es, FALSE, <<>>, TRUE, l) : es \in MixedFields, l \in ListsOf(SimpleLeaves)}
  \cup {Node(es, TRUE, l, FALSE, <<>>) : es \in MixedFields, l \in ListsOf(SimpleLeaves)}
  \cup {Node(<<>>, TRUE, l, TRUE, m) :
          l \in ListsOf(EmptyLeaves), m \in ListsOf({Fields(<<Entry("b", Num(2))>>)})}

Kids2 == {AndNode(<<>>), OrNode(<<Fields(<<>>)>>),
          OrNode(<<Fields(<<Entry("b", Num(2))>>), Fields(<<Entry("c", Num(3))>>)>>),
          Node(<<Entry("a", Num(1))>>, FALSE, <<>>, TRUE,
               <<Fields(<<Entry("b", Num(2))>>)>>),
          Fields(<<Entry("a", Num(1))>>),
          Fields(<<Entry("a", Undef)>>)}
Depth2 == {AndNode(l) : l \in ListsOf(Kids2)} \cup {OrNode(l) : l \in ListsOf(Kids2)}

TreeSet == Leaves \cup Depth1 \cup Depth2

\* ------------------------------------------------------------ statements
TableName == Tok("tbl", "t", 0)
Statement(kind, sql, params) == [kind |-> kind, sql |-> sql, params |-> params]
NoQuery == Statement("none", <<>>, <<>>)

\* mapFieldsToColumns: an object keyed by column name; a column written twice
\* keeps its first position and its last value
RECURSIVE mapFieldsToColumns(_)
mapFieldsToColumns(data) ==
  IF Len(data) = 0 THEN <<>>
  ELSE LET init == mapFieldsToColumns(SubSeq(data, 1, Len(data) - 1))
           e == data[Len(data)]
           columnName == getColumnName(e.field)
       IN IF \E i \in 1..Len(init) : init[i].field = columnName
            THEN [i \in 1..Len(init) |->
                    IF init[i].field = columnName THEN Entry(columnName, e.value)
                                                  ELSE init[i]]
            ELSE Append(init, Entry(columnName, e.value))

GroupByFragment(fields) ==
  <<Kw("GROUP BY")>> \o Join([i \in 1..Len(fields) |-> <<Col(getColumnName(fields[i]))>>], Comma)

\* a statement under construction: text so far, params so far, running index
Sql(sql, params, idx) == [sql |-> sql, params |-> params, idx |-> idx]

\* Appended with the running index left where it was
AppendedKeepIndex(st, keyword, c) ==
  Sql(st.sql \o <<Kw(keyword)>> \o c.clause, c.params, st.idx)

\* sql += " <keyword> " + clause; paramIndex = nextParamIndex
Appended(st, keyword, c) ==
  Sql(st.sql \o <<Kw(keyword)>> \o c.clause, c.params, c.nextParamIndex)

\* `if (conditions.length > 0) { ... buildWhereClause(conditions, params, paramIndex) ... }`
AddConditions(st, keyword, conditions) ==
  IF Len(conditions) > 0
    THEN Appended(st, keyword, buildWhereClause(conditions, st.params, st.idx))
    ELSE st

AddGroupBy(st, fields) ==
  IF Len(fields) > 0 THEN Sql(st.sql \o GroupByFragment(fields), st.params, st.idx)
                     ELSE st

\* LIMIT / OFFSET: one trailing parameter each when the value is set
AddTrailing(st, keyword, value) ==
  IF value.k # "undef"
    THEN Sql(st.sql \o <<Kw(keyword), Ph(st.idx)>>, Append(st.params, value), st.idx + 1)
    ELSE st

\* buildSelectQuery (JOIN and ORDER BY fragments bind no parameter and hold
\* no placeholder; the builder state modelled here never sets them)
buildSelectQuery(where, groupBy, having, lim, off) ==
  LET st == AddTrailing(
              AddTrailing(
                AddConditions(
                  AddGroupBy(
                    AddConditions(
                      Sql(<<Kw("SELECT"), Kw("*"), Kw("FROM"), TableName>>, <<>>, 1),
                      "WHERE", where),
                    groupBy),
                  "HAVING", having),
                "LIMIT", lim),
              "OFFSET", off)
  IN Statement("select", st.sql, st.params)

\* SET col = $i for the i-th key of the mapped data, params = its values
SetClause(mappedData) ==
  Sql(<<Kw("UPDATE"), TableName, Kw("SET")>>
        \o Join([i \in 1..Len(mappedData) |->
                   <<Col(mappedData[i].field), Kw("="), Ph(i)>>], Comma),
      [i \in 1..Len(mappedData) |-> mappedData[i].value],
      Len(mappedData) + 1)

buildUpdateQuery(where, data) ==
  LET st == AddConditions(SetClause(mapFieldsToColumns(data)), "WHERE", where)
  IN Statement("update", st.sql \o <<Kw("RETURNING *")>>, st.params)

buildDeleteQuery(where) ==
  LET st == AddConditions(Sql(<<Kw("DELETE FROM"), TableName>>, <<>>, 1),
                          "WHERE", where)
  IN Statement("delete", st.sql \o <<Kw("RETURNING *")>>, st.params)

\* the statement a count starts with: COUNT(*) over the table, WHERE
\* compiled from index 1 (index.ts 452-461)
CountFirst(where) ==
  AddConditions(Sql(<<Kw("SELECT COUNT(*) as count FROM"), TableName>>, <<>>, 1),
                "WHERE", where)

\* the same text and params with the running index set to idx
AtIndex(st, idx) == Sql(st.sql, st.params, idx)

\* the GROUP BY branch of buildCountQuery (index.ts 464-483): the statement
\* text is started again, the WHERE conditions are compiled a second time
\* from index 1 into the params the first compilation already filled, and
\* HAVING continues from the index the first compilation returned
GroupedCount(first, where, groupBy, having) ==
  AddConditions(
    AtIndex(
      AddGroupBy(
        AddConditions(
          Sql(<<Kw("SELECT COUNT(*) as count FROM"), LP, Kw("SELECT 1 FROM"), TableName>>,
              first.params, 1),
          "WHERE", where),
        groupBy),
      first.idx),
    "HAVING", having)

CountStatement(st, grouped) ==
  Statement("count",
            IF grouped THEN st.sql \o <<RP, Kw("as grouped_count")>> ELSE st.sql,
            st.params)

buildCountQuery(where, groupBy, having) ==
  IF Len(groupBy) > 0
    THEN CountStatement(GroupedCount(CountFirst(where), where, groupBy, having), TRUE)
    ELSE CountStatement(CountFirst(where), FALSE)

\* ------------------------------------------------------------ builder calls
\* the condition objects and grouping fields a builder has been given
MaxConds == 3

CondA == Fields(<<Entry("a", Num(1))>>)
CondB == Fields(<<Entry("b", OpObj(<<OpEntry("in", Arr(<<2, 3>>))>>))>>)
CondEmpty == Fields(<<>>)
CondEmptyAnd == AndNode(<<>>)
BuilderConds == {CondA, CondB, CondEmpty, CondEmptyAnd}
OrArgs == {CondA, CondEmpty}
HavingConds == {CondB, CondEmpty}
UpdateData == {<<Entry("c", Num(7))>>, <<Entry("c", Num(7)), Entry("userId", Num(8))>>}

RECURSIVE Weight(_)
RECURSIVE WeightOf(_)
\* the condition objects a tree is made of, a junction counting for the
\* objects in its list (for one if the list is empty)
Weight(c) ==
  IF ~c.hasAND /\ ~c.hasOR THEN 1
  ELSE IF WeightOf(c.AND) + WeightOf(c.OR) = 0 THEN 1
  ELSE WeightOf(c.AND) + WeightOf(c.OR)
WeightOf(cs) == IF Len(cs) = 0 THEN 0 ELSE Weight(Head(cs)) + WeightOf(Tail(cs))

Used == WeightOf(whereConditions) + Len(havingConditions) + Len(groupByFields)

\* isEmptyCondition: no key at all, or every value undefined
isEmptyCondition(condition) ==
  /\ ~condition.hasAND
  /\ ~condition.hasOR
  /\ \A i \in 1..Len(condition.fields) : condition.fields[i].value.k = "undef"

where(condition) ==
  /\ whereConditions' = IF isEmptyCondition(condition) THEN <<>> ELSE <<condition>>
  /\ query' = NoQuery
  /\ UNCHANGED <<havingConditions, groupByFields, limitValue, offsetValue, compiled, loaderVars, auxVars>>
  /\ Used' <= MaxConds

\* andWhere dropping the conditions already there, as where does
andWhereReplaces(condition) == where(condition)

andWhere(condition) ==
  /\ whereConditions' = IF isEmptyCondition(condition) THEN whereConditions
                        ELSE Append(whereConditions, condition)
  /\ query' = NoQuery
  /\ UNCHANGED <<havingConditions, groupByFields, limitValue, offsetValue, compiled, loaderVars, auxVars>>
  /\ Used' <= MaxConds

orWhere(condition) ==
  /\ \/ /\ Len(whereConditions) = 0
        /\ whereConditions' = <<condition>>
     \/ /\ Len(whereConditions) > 0
        /\ LET lastCondition == whereConditions[Len(whereConditions)]
               orCondition == OrNode(<<lastCondition, condition>>)
           IN whereConditions' =
                Append(SubSeq(whereConditions, 1, Len(whereConditions) - 1),
                       orCondition)
  /\ query' = NoQuery
  /\ UNCHANGED <<havingConditions, groupByFields, limitValue, offsetValue, compiled, loaderVars, auxVars>>
  /\ Used' <= MaxConds

whereMultiple(conditions) ==
  /\ whereConditions' = conditions
  /\ query' = NoQuery
  /\ UNCHANGED <<havingConditions, groupByFields, limitValue, offsetValue, compiled, loaderVars, auxVars>>
  /\ Used' <= MaxConds

\* the conditions the scopes of a repository hold
ScopeConds == {CondA, CondB}

\* a scope method of a ScopedQueryBuilder: the wrapped builder becomes what the
\* scope function returns for it. The scopes of the README return
\* qb.where(condition), the scopes of tests/types.ts qb.andWhere(condition).
scopeMethod(scopes, condition) ==
  \/ scopes = "where" /\ where(condition)
  \/ scopes = "andWhere" /\ andWhere(condition)

groupBy(fields) ==
  /\ groupByFields' = groupByFields \o fields
  /\ query' = NoQuery
  /\ UNCHANGED <<whereConditions, havingConditions, limitValue, offsetValue, compiled, loaderVars, auxVars>>
  /\ Used' <= MaxConds

having(condition) ==
  /\ havingConditions' = <<condition>>
  /\ query' = NoQuery
  /\ UNCHANGED <<whereConditions, groupByFields, limitValue, offsetValue, compiled, loaderVars, auxVars>>
  /\ Used' <= MaxConds

andHaving(condition) ==
  /\ havingConditions' = Append(havingConditions, condition)
  /\ query' = NoQuery
  /\ UNCHANGED <<whereConditions, groupByFields, limitValue, offsetValue, compiled, loaderVars, auxVars>>
  /\ Used' <= MaxConds

limit(count) ==
  /\ limitValue' = count
  /\ query' = NoQuery
  /\ UNCHANGED <<whereConditions, havingConditions, groupByFields, offsetValue, compiled, loaderVars, auxVars>>

offset(count) ==
  /\ offsetValue' = count
  /\ query' = NoQuery
  /\ UNCHANGED <<whereConditions, havingConditions, groupByFields, limitValue, compiled, loaderVars, auxVars>>

builderState == <<whereConditions, havingConditions, groupByFields,
                  limitValue, offsetValue>>

\* getMany / getOne: the statement handed to the executor
getMany ==
  /\ query' = buildSelectQuery(whereConditions, groupByFields, havingConditions,
                               limitValue, offsetValue)
  /\ UNCHANGED <<builderState, compiled, loaderVars, auxVars>>

update(data) ==
  /\ query' = buildUpdateQuery(whereConditions, data)
  /\ UNCHANGED <<builderState, compiled, loaderVars, auxVars>>

delete ==
  /\ query' = buildDeleteQuery(whereConditions)
  /\ UNCHANGED <<builderState, compiled, loaderVars, auxVars>>

count ==
  /\ query' = buildCountQuery(whereConditions, groupByFields, havingConditions)
  /\ UNCHANGED <<builderState, compiled, loaderVars, auxVars>>

\* ------------------------------------------------------------ registry
MaxRecords == 2
MaxRows == 2
MaxKey == 2

snakeToCamel(str) ==
  CASE str = "user_id" -> "userId"
    [] str = "post_id" -> "postId"
    [] str = "team_id" -> "teamId"
    [] str = "tag_id" -> "tagId"
    [] OTHER -> str

\* a Relation object; "" is a key the relation helper leaves unset
Relation(type, targetModel, foreignKey, localKey, pivotTable, pivotForeignKey, pivotRelatedKey) ==
  [type |-> type, targetModel |-> targetModel, foreignKey |-> foreignKey,
   localKey |-> localKey, pivotTable |-> pivotTable,
   pivotForeignKey |-> pivotForeignKey, pivotRelatedKey |-> pivotRelatedKey]

hasOne(targetModel, foreignKey) ==
  Relation("hasOne", targetModel, foreignKey, "id", "", "", "")
hasMany(targetModel, foreignKey) ==
  Relation("hasMany", targetModel, foreignKey, "id", "", "", "")
belongsTo(targetModel, foreignKey) ==
  Relation("belongsTo", targetModel, foreignKey, "id", "", "", "")
belongsToMany(targetModel, pivotTable, pivotForeignKey, pivotRelatedKey) ==
  Relation("belongsToMany", targetModel, "", "", pivotTable, pivotForeignKey,
           pivotRelatedKey)
NoRelation == Relation("none", "", "", "", "", "", "")

\* the models of the application, each defined under the name of its table
ModelNames == {"users", "profiles", "posts", "teams", "tags"}
Tables == ModelNames \cup {"user_tags"}
RelationNames == {"profile", "posts", "team", "tags", "user", "lead", "ghost"}
FieldKeys == {"id", "userId", "teamId", "tagId"}
Columns == {"id", "user_id", "team_id", "tag_id"}

\* the `relations` of each model config; NoRelation is a missing key
ModelConfigRelations(modelName) ==
  [name \in RelationNames |->
     CASE modelName = "users" /\ name = "profile" -> hasOne("profiles", "userId")
       [] modelName = "users" /\ name = "posts" -> hasMany("posts", "userId")
       [] modelName = "users" /\ name = "team" -> belongsTo("teams", "teamId")
       [] modelName = "users" /\ name = "tags" ->
            belongsToMany("tags", "user_tags", "userId", "tagId")
       [] modelName = "users" /\ name = "lead" -> belongsTo("users", "teamId")
       [] modelName = "posts" /\ name = "user" -> belongsTo("users", "userId")
       [] OTHER -> NoRelation]

\* getModelRelations: throws for a model that is not registered, undefined
\* for a model registered without relations
getModelRelations(reg, modelName) ==
  [threw |-> modelName \notin reg,
   defined |-> modelName \in {"users", "posts"},
   relations |-> ModelConfigRelations(modelName)]

\* getModelTable: throws for a model that is not registered
getModelTable(reg, modelName) ==
  [threw |-> modelName \notin reg, table |-> modelName]

\* getRegisteredModel: undefined for a model that is not registered
getRegisteredModel(reg, modelName) ==
  [defined |-> modelName \in reg, table |-> modelName]

\* ------------------------------------------------------------ rows, entities
Row(id, userId, teamId, tagId) ==
  [id |-> id, user_id |-> userId, team_id |-> teamId, tag_id |-> tagId]

\* mapColumnsToFields with an empty fieldsDefinition: every column present in
\* the row is stored under snakeToCamel(column)
mapColumnsToFields(row) ==
  [f \in FieldKeys |->
     IF \E c \in Columns : row[c].k # "undef" /\ snakeToCamel(c) = f
       THEN row[CHOOSE c \in Columns : row[c].k # "undef" /\ snakeToCamel(c) = f]
       ELSE Undef]

mapRowsToEntities(rows) == [i \in 1..Len(rows) |-> mapColumnsToFields(rows[i])]

\* the value of record[relationName]
Attached(kind, refs) == [kind |-> kind, refs |-> refs]
Unset == Attached("unset", <<>>)
NullRelation == Attached("null", <<>>)
One(ref) == Attached("one", <<ref>>)
Many(refs) == Attached("many", refs)

Entity(model, fields) ==
  [model |-> model, fields |-> fields, rels |-> [name \in RelationNames |-> Unset]]

\* the objects a getMany call creates, appended to the heap
Alloc(h, model, entities) ==
  h \o [i \in 1..Len(entities) |-> Entity(model, entities[i])]
Refs(h, n) == [i \in 1..n |-> Len(h) + i]
Range(s) == {s[i] : i \in 1..Len(s)}

\* ------------------------------------------------------------ executor
\* new QueryBuilder(table, executor).where({[field]: {in: ids}}) and the
\* statement its getMany builds
InCondition(field, ids) ==
  Fields(<<Entry(field, OpObj(<<OpEntry("in", Arr([i \in 1..Len(ids) |-> ids[i].n]))>>))>>)

InQuery(table, field, ids) ==
  [table |-> table,
   stmt |-> buildSelectQuery(<<InCondition(field, ids)>>, <<>>, <<>>, Undef, Undef)]

AllQuery(table) ==
  [table |-> table, stmt |-> buildSelectQuery(<<>>, <<>>, <<>>, Undef, Undef)]

\* the database's answer: the rows of the table, in table order, whose value
\* in the column of the WHERE clause is one of the bound parameters
Filtered(rows, sql, params) ==
  IF \E p \in 1..Len(sql) : sql[p].t = "col"
    THEN SelectSeq(rows, LAMBDA row :
           \E i \in 1..Len(params) :
             row[sql[CHOOSE p \in 1..Len(sql) : sql[p].t = "col"].s] = params[i])
    ELSE rows

execute(database, q) == Filtered(database[q.table], q.stmt.sql, q.stmt.params)

Sent(path, q, ok) == [path |-> path, table |-> q.table, stmt |-> q.stmt, ok |-> ok]

\* ------------------------------------------------------------ relation loading
\* what one loadSingleRelation call did: the heap after it, the statements it
\* handed to the executor, whether it threw, and its relatedRecords
Loaded(h, sent, threw, related) ==
  [heap |-> h, sent |-> sent, threw |-> threw, related |-> related]

\* records.map((record) => record[key]).filter((id) => id != null)
Ids(h, records, key) ==
  SelectSeq([i \in 1..Len(records) |-> h[records[i]].fields[key]],
            LAMBDA id : id.k \notin {"null", "undef"})

\* every fetched row, whatever its key
MatchingAll(h, refs, key, value) == refs

\* relatedRecords.filter((r) => r[key] === value)
Matching(h, refs, key, value) ==
  SelectSeq(refs, LAMBDA r : h[r].fields[key] = value)

\* record[relationName] = related[0] || null   /   = related
HasValue(type, related) ==
  IF type = "hasOne"
    THEN IF Len(related) > 0 THEN One(related[1]) ELSE NullRelation
    ELSE Many(related)

AttachHas(h, records, relationName, relation, localKey, refs) ==
  [r \in 1..Len(h) |->
     IF r \in Range(records)
       THEN [h[r] EXCEPT !.rels[relationName] =
               HasValue(relation.type,
                        Matching(h, refs, relation.foreignKey, h[r].fields[localKey]))]
       ELSE h[r]]

loadHas(h, database, path, records, relationName, relation, targetTable, localKey, ids, fail) ==
  LET hasQuery == InQuery(targetTable, relation.foreignKey, ids)
      rows == execute(database, hasQuery)
  IN IF fail = 1
       THEN Loaded(h, <<Sent(path, hasQuery, FALSE)>>, TRUE, <<>>)
       ELSE Loaded(AttachHas(Alloc(h, relation.targetModel, mapRowsToEntities(rows)),
                             records, relationName, relation, localKey,
                             Refs(h, Len(rows))),
                   <<Sent(path, hasQuery, TRUE)>>, FALSE, Refs(h, Len(rows)))

\* record[relationName] = relatedRecords.find(...) || null
AttachBelongsTo(h, records, relationName, relation, localKey, refs) ==
  [r \in 1..Len(h) |->
     IF r \in Range(records)
       THEN [h[r] EXCEPT !.rels[relationName] =
               HasValue("hasOne",
                        Matching(h, refs, localKey, h[r].fields[relation.foreignKey]))]
       ELSE h[r]]

loadBelongsTo(h, database, path, records, relationName, relation, targetTable, localKey, fail) ==
  LET foreignKeys == Ids(h, records, relation.foreignKey)
      belongsQuery == InQuery(targetTable, localKey, foreignKeys)
      rows == execute(database, belongsQuery)
  IN IF Len(foreignKeys) = 0
       THEN Loaded(h, <<>>, FALSE, <<>>)
     ELSE IF fail = 1
       THEN Loaded(h, <<Sent(path, belongsQuery, FALSE)>>, TRUE, <<>>)
     ELSE Loaded(AttachBelongsTo(Alloc(h, relation.targetModel, mapRowsToEntities(rows)),
                                 records, relationName, relation, localKey,
                                 Refs(h, Len(rows))),
                 <<Sent(path, belongsQuery, TRUE)>>, FALSE, Refs(h, Len(rows)))

\* pivotMatches.map((pivot) => relatedRecords.find((related) =>
\*   related.id === pivot[pivotRelatedKey])).filter((related) => related != null)
RelatedForRecord(h, refs, pivotMatches, pivotRelatedKey) ==
  LET found == SelectSeq(pivotMatches, LAMBDA pivot :
                 Len(Matching(h, refs, "id", pivot[pivotRelatedKey])) > 0)
  IN [i \in 1..Len(found) |-> Matching(h, refs, "id", found[i][pivotRelatedKey])[1]]

AttachPivot(h, records, relationName, relation, localKey, pivotRecords, refs) ==
  [r \in 1..Len(h) |->
     IF r \in Range(records)
       THEN [h[r] EXCEPT !.rels[relationName] =
               Many(RelatedForRecord(h, refs,
                      SelectSeq(pivotRecords, LAMBDA pivot :
                        pivot[relation.pivotForeignKey] = h[r].fields[localKey]),
                      relation.pivotRelatedKey))]
       ELSE h[r]]

loadBelongsToMany(h, database, path, records, relationName, relation, targetTable, localKey, ids, fail) ==
  LET pivotQuery == InQuery(relation.pivotTable, relation.pivotForeignKey, ids)
      pivotRecords == mapRowsToEntities(execute(database, pivotQuery))
      relatedIds == SelectSeq([i \in 1..Len(pivotRecords) |->
                                 pivotRecords[i][relation.pivotRelatedKey]],
                              LAMBDA id : id.k \notin {"null", "undef"})
      relatedQuery == InQuery(targetTable, "id", relatedIds)
      rows == execute(database, relatedQuery)
  IN IF fail = 1
       THEN Loaded(h, <<Sent(path, pivotQuery, FALSE)>>, TRUE, <<>>)
     ELSE IF Len(pivotRecords) = 0 \/ Len(relatedIds) = 0
       THEN Loaded(h, <<Sent(path, pivotQuery, TRUE)>>, FALSE, <<>>)
     ELSE IF fail = 2
       THEN Loaded(h, <<Sent(path, pivotQuery, TRUE), Sent(path, relatedQuery, FALSE)>>,
                   TRUE, <<>>)
     ELSE Loaded(AttachPivot(Alloc(h, relation.targetModel, mapRowsToEntities(rows)),
                             records, relationName, relation, localKey,
                             pivotRecords, Refs(h, Len(rows))),
                 <<Sent(path, pivotQuery, TRUE), Sent(path, relatedQuery, TRUE)>>,
                 FALSE, Refs(h, Len(rows)))

TargetTable(reg, relation) ==
  IF getModelTable(reg, relation.targetModel).threw
    THEN relation.targetModel
    ELSE getModelTable(reg, relation.targetModel).table

LocalKey(relation) == IF relation.localKey # "" THEN relation.localKey ELSE "id"

\* loadSingleRelation up to the nested call; `fail` is the position of the
\* executor call that raises (0: none does)
loadSingleRelation(h, database, reg, path, records, relationName, relation, fail) ==
  IF Len(Ids(h, records, LocalKey(relation))) = 0
    THEN Loaded(h, <<>>, FALSE, <<>>)
  ELSE IF relation.type \in {"hasOne", "hasMany"}
    THEN loadHas(h, database, path, records, relationName, relation,
                 TargetTable(reg, relation), LocalKey(relation),
                 Ids(h, records, LocalKey(relation)), fail)
  ELSE IF relation.type = "belongsTo"
    THEN loadBelongsTo(h, database, path, records, relationName, relation,
                       TargetTable(reg, relation), LocalKey(relation), fail)
  ELSE loadBelongsToMany(h, database, path, records, relationName, relation,
                         TargetTable(reg, relation), LocalKey(relation),
                         Ids(h, records, LocalKey(relation)), fail)

\* ------------------------------------------------------------ loadRelations
\* one entry of a RelationLoadOptions object: true, false, or a nested object
Option(name, load, nested) == [name |-> name, load |-> load, nested |-> nested]
Yes(name) == Option(name, "true", <<>>)
No(name) == Option(name, "false", <<>>)
With(name, nested) == Option(name, "object", nested)

\* a running loadRelations call: its records, the entries of its options in
\* Object.entries order, the entry the loop is at, and the relation names
\* that lead from the root records to its records
Frame(model, records, options, i, path) ==
  [model |-> model, records |-> records, options |-> options, i |-> i,
   path |-> path]

Warn(kind, subject) == [kind |-> kind, subject |-> subject]

\* the checks loadRelations makes before its loop
Enter(stk, reg, modelName, records, options, path) ==
  IF \/ Len(records) = 0
     \/ getModelRelations(reg, modelName).threw
     \/ ~getModelRelations(reg, modelName).defined
    THEN stk
    ELSE <<Frame(modelName, records, options, 1, path)>> \o stk

EnterWarnings(reg, modelName, records) ==
  IF Len(records) = 0 THEN {}
  ELSE IF getModelRelations(reg, modelName).threw
    THEN {Warn("model not found", modelName)}
  ELSE IF ~getModelRelations(reg, modelName).defined
    THEN {Warn("no relations", modelName)}
  ELSE {}

RECURSIVE Unwind(_)
\* `return records` of every call whose loop has run out of entries
Unwind(stk) ==
  IF Len(stk) = 0 THEN stk
  ELSE IF Head(stk).i > Len(Head(stk).options) THEN Unwind(Tail(stk))
  ELSE stk

\* a `return records` where the loop has `continue`: it would drop the
\* entries that follow
SkippedRest(frame) == [frame EXCEPT !.i = Len(frame.options) + 1]

\* `continue` after a false option or an undeclared name
Skipped(frame) == [frame EXCEPT !.i = frame.i + 1]

\* the loop going round again without having moved to the next entry
AdvancedNowhere(frame) == frame

\* the for-of loop moving on after the try / catch around loadSingleRelation
Advanced(frame) == [frame EXCEPT !.i = frame.i + 1]

\* a nested call that takes the entry itself for the options of the next
\* level, whatever the caller wrote under it
NestedAgain(stk, reg, entry, relation, r, path) ==
  IF /\ Len(r.related) > 0
     /\ getRegisteredModel(reg, relation.targetModel).defined
    THEN Enter(stk, reg, getRegisteredModel(reg, relation.targetModel).table,
               r.related, <<entry>>, path)
    ELSE stk

\* a nested call made for a bare `true` as well, loading the same relation
\* one level down
NestedForTrue(stk, reg, entry, relation, r, path) ==
  IF /\ entry.load \in {"object", "true"}
     /\ Len(r.related) > 0
     /\ getRegisteredModel(reg, relation.targetModel).defined
    THEN Enter(stk, reg, getRegisteredModel(reg, relation.targetModel).table,
               r.related,
               IF entry.load = "object" THEN entry.nested ELSE <<Yes(entry.name)>>,
               path)
    ELSE stk

\* the nested loadRelations call at the end of loadSingleRelation
Nested(stk, reg, entry, relation, r, path) ==
  IF /\ entry.load = "object"
     /\ Len(r.related) > 0
     /\ getRegisteredModel(reg, relation.targetModel).defined
    THEN Enter(stk, reg, getRegisteredModel(reg, relation.targetModel).table,
               r.related, entry.nested, path)
    ELSE stk

NestedWarnings(reg, entry, relation, r) ==
  IF entry.load = "object" /\ Len(r.related) > 0
    THEN IF getRegisteredModel(reg, relation.targetModel).defined
           THEN EnterWarnings(reg, relation.targetModel, r.related)
           ELSE {Warn("nested target not found", relation.targetModel)}
    ELSE {}

TargetWarnings(reg, relation) ==
  IF getModelTable(reg, relation.targetModel).threw
    THEN {Warn("target not found", relation.targetModel)}
    ELSE {}

StageOf(stk) == IF Len(stk) = 0 THEN "resolved" ELSE "loading"

Top == Head(stack)
CurrentEntry == Top.options[Top.i]
CurrentRelation == getModelRelations(registered, Top.model).relations[CurrentEntry.name]
CurrentPath == Append(Top.path, CurrentEntry.name)

\* Repository.find: the root query, then loadRelations on its rows when the
\* request has at least one key
Found(rows) ==
  /\ heap' = Alloc(<<>>, "users", mapRowsToEntities(rows))
  /\ log' = <<Sent(<<>>, AllQuery("users"), TRUE)>>
  /\ stack' = IF Len(request) > 0
                THEN Unwind(Enter(<<>>, registered, "users", Refs(<<>>, Len(rows)),
                                  request, <<>>))
                ELSE <<>>
  /\ diag' = IF Len(request) > 0
               THEN EnterWarnings(registered, "users", Refs(<<>>, Len(rows)))
               ELSE {}

find ==
  /\ stage = "idle"
  /\ Found(execute(db, AllQuery("users")))
  /\ stage' = StageOf(stack')
  /\ UNCHANGED <<db, registered, request, compileVars, builderVars, auxVars>>

\* the executor raises on the root query
findFails ==
  /\ stage = "idle"
  /\ log' = <<Sent(<<>>, AllQuery("users"), FALSE)>>
  /\ stage' = "rejected"
  /\ UNCHANGED <<db, registered, request, heap, stack, diag, compileVars, builderVars, auxVars>>

\* one round of the loop on an entry that is false or names no relation
skipRelation ==
  /\ stage = "loading"
  /\ CurrentEntry.load = "false" \/ CurrentRelation = NoRelation
  /\ stack' = Unwind(<<Skipped(Top)>> \o Tail(stack))
  /\ stage' = StageOf(stack')
  /\ diag' = IF CurrentEntry.load = "false" THEN diag
             ELSE diag \cup {Warn("relation not found", CurrentEntry.name)}
  /\ UNCHANGED <<db, registered, request, heap, log, compileVars, builderVars, auxVars>>

\* what loadRelations is left with after a loadSingleRelation call returned r
Settled(r) ==
  /\ heap' = r.heap
  /\ log' = log \o r.sent
  /\ stack' = Unwind(IF r.threw
                       THEN <<Advanced(Top)>> \o Tail(stack)
                       ELSE Nested(<<Advanced(Top)>> \o Tail(stack), registered,
                                   CurrentEntry, CurrentRelation, r, CurrentPath))
  /\ diag' = diag \cup TargetWarnings(registered, CurrentRelation)
                  \cup (IF r.threw THEN {Warn("error loading", CurrentEntry.name)}
                        ELSE NestedWarnings(registered, CurrentEntry, CurrentRelation, r))

\* one round of the loop on a declared relation, every executor call answering
loadRelation ==
  /\ stage = "loading"
  /\ CurrentEntry.load # "false"
  /\ CurrentRelation # NoRelation
  /\ \E r \in {loadSingleRelation(heap, db, registered, CurrentPath, Top.records,
                                  CurrentEntry.name, CurrentRelation, 0)} :
       Settled(r)
  /\ stage' = StageOf(stack')
  /\ UNCHANGED <<db, registered, request, compileVars, builderVars, auxVars>>

\* one round of the loop on a declared relation, the executor raising on the
\* first or the second statement; the catch block logs the error
loadRelationFails(fail) ==
  /\ stage = "loading"
  /\ CurrentEntry.load # "false"
  /\ CurrentRelation # NoRelation
  /\ \E r \in {loadSingleRelation(heap, db, registered, CurrentPath, Top.records,
                                  CurrentEntry.name, CurrentRelation, fail)} :
       r.threw /\ Settled(r)
  /\ stage' = StageOf(stack')
  /\ UNCHANGED <<db, registered, request, compileVars, builderVars, auxVars>>

\* ------------------------------------------------------------ loader inputs
SeqsUpTo(S, n) == UNION {[1..m -> S] : m \in 0..n}

UserRow(id) == Row(Num(id), Undef, IF id = 1 THEN Num(1) ELSE Null, Undef)
\* a row of a select that leaves the id column out
ProjectedRow == Row(Undef, Undef, Num(1), Undef)

UserTables ==
  {s \in SeqsUpTo({UserRow(id) : id \in 1..MaxKey}, MaxRecords) :
     \A i \in 1..Len(s) : \A j \in 1..Len(s) : i # j => s[i] # s[j]}
  \cup (SeqsUpTo({ProjectedRow}, MaxRecords) \ {<<>>})

\* rows of posts / profiles: the primary key is the position in the table
ChildTables ==
  UNION {{[i \in 1..m |-> Row(Num(i), Num(owners[i]), Undef, Undef)] :
            owners \in [1..m -> 1..MaxKey]} : m \in 0..MaxRows}

PivotTables ==
  SeqsUpTo({Row(Undef, Num(u), Undef, Num(t)) : u \in 1..MaxKey, t \in 1..MaxKey},
           MaxRows)

Database(users, children, pivot) ==
  [t \in Tables |->
     CASE t = "users" -> users
       [] t \in {"profiles", "posts"} -> children
       [] t = "user_tags" -> pivot
       [] t = "teams" -> <<Row(Num(1), Undef, Undef, Undef)>>
       [] t = "tags" -> [i \in 1..MaxKey |-> Row(Num(i), Undef, Undef, Undef)]]

Declared == {"profile", "posts", "team", "tags"}

Requests ==
  {<<Yes(n)>> : n \in Declared \cup {"ghost"}}
  \cup {<<Yes("ghost"), Yes(n)>> : n \in Declared}
  \cup {<<Yes(n), Yes("ghost")>> : n \in Declared}
  \cup {<<Yes("posts"), Yes("profile")>>, <<Yes("posts"), Yes("team")>>,
        <<No("posts"), Yes("team")>>, <<No("tags")>>, <<>>,
        <<With("posts", <<Yes("user")>>)>>, <<With("posts", <<Yes("ghost")>>)>>,
        <<With("tags", <<>>)>>, <<With("team", <<Yes("ghost")>>)>>,
        <<Yes("lead")>>, <<With("lead", <<Yes("lead")>>)>>,
        <<With("lead", <<With("lead", <<Yes("lead")>>)>>)>>,
        <<With("posts", <<With("user", <<Yes("posts")>>)>>)>>}

Reads(req, names) == \E i \in 1..Len(req) : req[i].name \in names

LoaderIdle ==
  /\ db = Database(<<>>, <<>>, <<>>)
  /\ registered = ModelNames
  /\ request = <<>>
  /\ heap = <<>>
  /\ stack = <<>>
  /\ stage = "idle"
  /\ log = <<>>
  /\ diag = {}

LoaderInit ==
  /\ request \in Requests
  /\ registered \in {ModelNames, ModelNames \ {"users"}, ModelNames \ {"teams"}}
  /\ \E users \in UserTables :
       \E children \in (IF Reads(request, {"profile", "posts"}) /\ registered = ModelNames
                          THEN ChildTables ELSE {<<>>}) :
         \E pivot \in (IF Reads(request, {"tags"}) /\ registered = ModelNames
                         THEN PivotTables ELSE {<<>>}) :
           db = Database(users, children, pivot)
  /\ heap = <<>>
  /\ stack = <<>>
  /\ stage = "idle"
  /\ log = <<>>
  /\ diag = {}

\* ------------------------------------------------------------ insertMany
MaxBatch == 2

\* the call threw before any statement was built
Thrown == Statement("throw", <<>>, <<>>)
\* the call resolved to [] without building a statement
ResolvedEmpty == Statement("resolved", <<>>, <<>>)

\* the column names of the model in the order Array.prototype.sort puts them
ColumnOrder == <<"a", "b", "c", "id", "post_id", "tag_id", "team_id", "user_id">>

\* Array.from(allColumns).sort()
SortedColumns(allColumns) == SelectSeq(ColumnOrder, LAMBDA col : col \in allColumns)

\* Object.keys of every mapped item, added to one Set
AllColumns(mappedData) ==
  UNION {{mappedData[r][i].field : i \in 1..Len(mappedData[r])} : r \in 1..Len(mappedData)}

\* item.hasOwnProperty(col) ? item[col] : null
Normalized(item, col) ==
  IF \E i \in 1..Len(item) : item[i].field = col
    THEN item[CHOOSE i \in 1..Len(item) : item[i].field = col].value
    ELSE Null

RECURSIVE Flat(_)
Flat(lists) == IF Len(lists) = 0 THEN <<>> ELSE Head(lists) \o Flat(Tail(lists))

\* every row numbering its placeholders from 1
PlaceholderInRow(rowIndex, colIndex, width) == colIndex + 1

\* `$${colIndex + 1 + rowIndex * columns.length}`, both indexes 0-based
PlaceholderNumber(rowIndex, colIndex, width) == colIndex + 1 + rowIndex * width

ValueRow(rowIndex, width) ==
  <<LP>> \o Join([c \in 1..width |-> <<Ph(PlaceholderNumber(rowIndex, c - 1, width))>>], Comma)
         \o <<RP>>

InsertManyStatement(mappedData, columns) ==
  Statement("insertMany",
            <<Kw("INSERT INTO"), TableName, LP>>
              \o Join([c \in 1..Len(columns) |-> <<Col(columns[c])>>], Comma)
              \o <<RP, Kw("VALUES")>>
              \o Join([r \in 1..Len(mappedData) |-> ValueRow(r - 1, Len(columns))], Comma)
              \o <<Kw("RETURNING *")>>,
            Flat([r \in 1..Len(mappedData) |->
                    [c \in 1..Len(columns) |-> Normalized(mappedData[r], columns[c])]]))

InsertManyMapped(mappedData) ==
  InsertManyStatement(mappedData, SortedColumns(AllColumns(mappedData)))

\* buildInsertManyQuery without its `data.length === 0` test
buildInsertManyQueryUnchecked(data) ==
  InsertManyMapped([r \in 1..Len(data) |-> mapFieldsToColumns(data[r])])

buildInsertManyQuery(data) ==
  IF Len(data) = 0
    THEN Thrown
    ELSE InsertManyMapped([r \in 1..Len(data) |-> mapFieldsToColumns(data[r])])

\* the rows of a batch: heterogeneous keys, an undefined value, no key at all
InsertRows ==
  {<<Entry("a", Num(1)), Entry("b", Num(2))>>,
   <<Entry("a", Num(3))>>,
   <<Entry("userId", Num(2)), Entry("a", Undef)>>,
   <<>>}
Batches == UNION {[1..n -> InsertRows] : n \in 0..MaxBatch}

Fresh ==
  /\ whereConditions = <<>>
  /\ havingConditions = <<>>
  /\ groupByFields = <<>>
  /\ limitValue = Undef
  /\ offsetValue = Undef

\* QueryBuilder.insertMany, called as the repository calls it: on a builder
\* it has just made
insertMany(data) ==
  /\ Fresh
  /\ query' = buildInsertManyQuery(data)
  /\ UNCHANGED <<builderState, compiled, loaderVars, auxVars>>

\* createMany without its `data.length === 0` return
createManyOutcomeUnguarded(data) == buildInsertManyQuery(data)

\* what a Repository.createMany call comes to: [] at once for an empty
\* array, else the insertMany of a new builder
createManyOutcome(data) ==
  IF Len(data) = 0 THEN ResolvedEmpty ELSE buildInsertManyQuery(data)

\* Repository.createMany
createMany(data) ==
  /\ Fresh
  /\ query' = createManyOutcome(data)
  /\ UNCHANGED <<builderState, compiled, loaderVars, auxVars>>

\* ------------------------------------------------------------ column mapping
MaxFields == 2

\* obj[key] = value on an object kept as its entries in insertion order
Put(obj, key, value) ==
  IF \E i \in 1..Len(obj) : obj[i].field = key
    THEN [i \in 1..Len(obj) |-> IF obj[i].field = key THEN Entry(key, value) ELSE obj[i]]
    ELSE Append(obj, Entry(key, value))

Has(obj, key) == \E i \in 1..Len(obj) : obj[i].field = key
ValueOf(obj, key) == obj[CHOOSE i \in 1..Len(obj) : obj[i].field = key].value

\* one entry of a FieldsDefinition: the field and its `column` option ("" when
\* the option is not given)
FieldDef(field, column) == [field |-> field, column |-> column]

\* fieldsDefinition[field]
FieldDefOf(fieldsDefinition, field) ==
  IF \E i \in 1..Len(fieldsDefinition) : fieldsDefinition[i].field = field
    THEN fieldsDefinition[CHOOSE i \in 1..Len(fieldsDefinition) :
                            fieldsDefinition[i].field = field]
    ELSE FieldDef(field, "")

\* getColumnName(field, fieldDef) of the types module
getColumnNameDef(field, fieldDef) ==
  IF fieldDef.column # "" THEN fieldDef.column ELSE camelToSnake(field)

RECURSIVE mapFieldsToColumnsDef(_, _)
mapFieldsToColumnsDef(fields, fieldsDefinition) ==
  IF Len(fields) = 0 THEN <<>>
  ELSE Put(mapFieldsToColumnsDef(SubSeq(fields, 1, Len(fields) - 1), fieldsDefinition),
           getColumnNameDef(fields[Len(fields)].field,
                            FieldDefOf(fieldsDefinition, fields[Len(fields)].field)),
           fields[Len(fields)].value)

RECURSIVE columnToFieldMap(_)
\* the reverse mapping mapColumnsToFields builds: column -> field, a column
\* two fields share keeping the field declared last
columnToFieldMap(fieldsDefinition) ==
  IF Len(fieldsDefinition) = 0 THEN <<>>
  ELSE Put(columnToFieldMap(SubSeq(fieldsDefinition, 1, Len(fieldsDefinition) - 1)),
           getColumnNameDef(fieldsDefinition[Len(fieldsDefinition)].field,
                            fieldsDefinition[Len(fieldsDefinition)]),
           fieldsDefinition[Len(fieldsDefinition)].field)

\* columnToFieldMap[column] || snakeToCamel(column)
FieldNameOf(reverse, column) ==
  IF Has(reverse, column) THEN ValueOf(reverse, column) ELSE snakeToCamel(column)

RECURSIVE MapColumns(_, _)
MapColumns(row, reverse) ==
  IF Len(row) = 0 THEN <<>>
  ELSE Put(MapColumns(SubSeq(row, 1, Len(row) - 1), reverse),
           FieldNameOf(reverse, row[Len(row)].field),
           row[Len(row)].value)

mapColumnsToFieldsDef(row, fieldsDefinition) ==
  MapColumns(row, columnToFieldMap(fieldsDefinition))

\* a mapping run: a model's fields, an entity with a value under every
\* declared field, the row written from it and the entity read back
Mapping(fieldsDefinition, entity, step, row, back) ==
  [fieldsDefinition |-> fieldsDefinition, entity |-> entity, step |-> step,
   row |-> row, back |-> back]

FieldDefs ==
  {FieldDef(f, c) : f \in {"a", "b", "userId", "user_id"}, c \in {"", "b", "uid"}}

FieldsDefinitions ==
  {d \in UNION {[1..n -> FieldDefs] : n \in 1..MaxFields} :
     \A i \in 1..Len(d) : \A j \in 1..Len(d) : i # j => d[i].field # d[j].field}

\* the entity of a run: the i-th declared field holds i
EntityOf(fieldsDefinition) ==
  [i \in 1..Len(fieldsDefinition) |-> Entry(fieldsDefinition[i].field, Num(i))]

MappingIdle == Mapping(<<>>, <<>>, "idle", <<>>, <<>>)

MappingInit ==
  mapping \in {Mapping(d, EntityOf(d), "entity", <<>>, <<>>) : d \in FieldsDefinitions}

\* the entity written: mapFieldsToColumns
writeEntity ==
  /\ mapping.step = "entity"
  /\ mapping' = [mapping EXCEPT !.step = "row",
                   !.row = mapFieldsToColumnsDef(mapping.entity, mapping.fieldsDefinition)]
  /\ UNCHANGED <<compileVars, builderVars, loaderVars, paging, tx, pool>>

\* the row read back: mapColumnsToFields
readRow ==
  /\ mapping.step = "row"
  /\ mapping' = [mapping EXCEPT !.step = "read",
                   !.back = mapColumnsToFieldsDef(mapping.row, mapping.fieldsDefinition)]
  /\ UNCHANGED <<compileVars, builderVars, loaderVars, paging, tx, pool>>

\* ------------------------------------------------------------ pagination
MaxPage == 3
MaxPageSize == 3
MaxItems == 5

\* parseInt(result?.count || '0'): no row counts as 0
parseCount(answer) == IF answer.k = "undef" THEN 0 ELSE answer.n

\* Math.floor(totalItems / pageSize)
FloorDiv(totalItems, pageSize) == totalItems \div pageSize

\* Math.ceil(totalItems / pageSize)
CeilDiv(totalItems, pageSize) ==
  IF totalItems % pageSize = 0 THEN totalItems \div pageSize
                               ELSE totalItems \div pageSize + 1

\* (pagination.page - 1) * pagination.pageSize
PageOffset(page, pageSize) == (page - 1) * pageSize

Paging(step, path, options, pagination, countQuery, totalItems, dataQuery, result) ==
  [step |-> step, path |-> path, options |-> options, pagination |-> pagination,
   countQuery |-> countQuery, totalItems |-> totalItems, dataQuery |-> dataQuery,
   result |-> result]

PaginationInput(page, pageSize) == [page |-> page, pageSize |-> pageSize]

\* the pagination member of a PaginationResult
PaginationResult(pagination, totalItems, totalPages) ==
  [currentPage |-> pagination.page, pageSize |-> pagination.pageSize,
   totalItems |-> totalItems, totalPages |-> totalPages,
   hasNextPage |-> pagination.page < totalPages,
   hasPreviousPage |-> pagination.page > 1]

NoResult == PaginationResult(PaginationInput(0, 0), 0, 0)

\* where / groupBy / having of the call (of the wrapped builder for a scoped
\* builder); an option that is not given leaves its list empty
PagingOptions(w, g, h) == [where |-> w, groupBy |-> g, having |-> h]

PagingPaths == {"getManyPaginated", "findPaginated", "scoped"}

\* the statement of the page: limit(pageSize).offset(offset) on the builder;
\* find() calls offset only when options.offset is truthy
PageQuery(path, options, pagination) ==
  buildSelectQuery(options.where, options.groupBy, options.having,
                   Num(pagination.pageSize),
                   IF path = "findPaginated"
                        /\ PageOffset(pagination.page, pagination.pageSize) = 0
                     THEN Undef
                     ELSE Num(PageOffset(pagination.page, pagination.pageSize)))

PagingIdle ==
  Paging("idle", "", PagingOptions(<<>>, <<>>, <<>>), PaginationInput(0, 0),
         NoQuery, 0, NoQuery, NoResult)

\* the call up to its first await: the count statement is built and sent
paginate(path, options, pagination) ==
  /\ paging.step = "idle"
  /\ paging' = Paging("counting", path, options, pagination,
                      buildCountQuery(options.where, options.groupBy, options.having),
                      0, NoQuery, NoResult)
  /\ UNCHANGED <<compileVars, builderVars, loaderVars, mapping, tx, pool>>

\* the count is answered: totalItems and totalPages are computed, the page's
\* statement is built and sent
countAnswered(answer) ==
  /\ paging.step = "counting"
  /\ paging' = [paging EXCEPT
                  !.step = "selecting",
                  !.totalItems = parseCount(answer),
                  !.dataQuery = PageQuery(paging.path, paging.options, paging.pagination)]
  /\ UNCHANGED <<compileVars, builderVars, loaderVars, mapping, tx, pool>>

\* the page is answered: the result is built
pageAnswered ==
  /\ paging.step = "selecting"
  /\ paging' = [paging EXCEPT
                  !.step = "done",
                  !.result = PaginationResult(paging.pagination, paging.totalItems,
                               CeilDiv(paging.totalItems, paging.pagination.pageSize))]
  /\ UNCHANGED <<compileVars, builderVars, loaderVars, mapping, tx, pool>>

\* the executor rejects the count or the page: the call rejects
pagingFails ==
  /\ paging.step \in {"counting", "selecting"}
  /\ paging' = [paging EXCEPT !.step = "rejected"]
  /\ UNCHANGED <<compileVars, builderVars, loaderVars, mapping, tx, pool>>

\* ScopedQueryBuilder.getManyPaginated: count() on the wrapped builder, then
\* limit(pageSize).offset(offset).getMany() on that same builder; the last
\* statement handed to the executor is the page's select
getManyPaginated(pagination) ==
  /\ limitValue' = Num(pagination.pageSize)
  /\ offsetValue' = Num(PageOffset(pagination.page, pagination.pageSize))
  /\ query' = buildSelectQuery(whereConditions, groupByFields, havingConditions,
                               limitValue', offsetValue')
  /\ UNCHANGED <<whereConditions, havingConditions, groupByFields, compiled, loaderVars, auxVars>>

ScopedPaginations == {PaginationInput(1, 10), PaginationInput(3, 10)}

PagingInputs ==
  {PagingOptions(w, g, h) : w \in {<<>>, <<CondA>>}, g \in {<<>>, <<"a">>},
                            h \in {<<>>, <<CondA>>}}
Paginations == {PaginationInput(p, s) : p \in 1..MaxPage, s \in 1..MaxPageSize}
CountAnswers == {Undef} \cup {Num(n) : n \in 0..MaxItems}

\* ------------------------------------------------------------ pool clients
MaxClients == 3

\* the pool as the adapter sees it: the operation holding a client now ("" for
\* none) and, for every client acquired so far, how often it was released
Pool(op, releases) == [op |-> op, releases |-> releases]
PoolIdle == Pool("", <<>>)
NoOperation == pool.op = ""

\* const client = await this.pool.connect()
Acquire(op) == Pool(op, Append(pool.releases, 0))

\* the operation returns or rejects without a release
Returned == Pool("", pool.releases)

\* client.release() on the client acquired last, and the operation is over
Release ==
  Pool("", [pool.releases EXCEPT ![Len(pool.releases)] = pool.releases[Len(pool.releases)] + 1])

\* ------------------------------------------------------------ transactions
MaxStatements == 2

\* a call of PostgreSQLAdapter.transaction: where it stands, the statements
\* sent on the client so far, how the callback ended and with which error, the
\* error in flight (the one the caller receives once the call has rejected)
\* and whether the client has been released
Tx(step, sent, callback, raised, error, released) ==
  [step |-> step, sent |-> sent, callback |-> callback, raised |-> raised,
   error |-> error, released |-> released]

TxIdle == Tx("idle", <<>>, "pending", "", "", FALSE)

CallbackStatements == {"SELECT", "UPDATE", "INSERT"}

\* client.query(text): the statement is sent and is answered or rejected
Query(text, ok, answered, rejected) ==
  IF ok THEN [answered EXCEPT !.sent = Append(tx.sent, text)]
        ELSE [rejected EXCEPT !.sent = Append(tx.sent, text)]

\* await this.pool.connect(): outside the try block
transaction(connected) ==
  /\ tx.step = "idle"
  /\ NoOperation
  /\ Len(pool.releases) < MaxClients
  /\ tx' = IF connected THEN [tx EXCEPT !.step = "begin"]
                        ELSE [tx EXCEPT !.step = "rejected", !.error = "connect"]
  /\ pool' = IF connected THEN Acquire("transaction") ELSE pool
  /\ UNCHANGED <<compileVars, builderVars, loaderVars, mapping, paging>>

\* await client.query('BEGIN')
begin(ok) ==
  /\ tx.step = "begin"
  /\ tx' = Query("BEGIN", ok, [tx EXCEPT !.step = "callback"],
                 [tx EXCEPT !.step = "catch", !.error = "BEGIN"])
  /\ UNCHANGED <<compileVars, builderVars, loaderVars, mapping, paging, pool>>

\* the callback sends a statement on the client it was given; a rejected
\* statement rejects the callback
callbackQuery(text, ok) ==
  /\ tx.step = "callback"
  /\ Len(tx.sent) <= MaxStatements
  /\ tx' = Query(text, ok, tx,
                 [tx EXCEPT !.step = "catch", !.callback = "failed",
                            !.raised = "statement", !.error = "statement"])
  /\ UNCHANGED <<compileVars, builderVars, loaderVars, mapping, paging, pool>>

\* the callback resolves
callbackReturns ==
  /\ tx.step = "callback"
  /\ tx' = [tx EXCEPT !.step = "commit", !.callback = "succeeded"]
  /\ UNCHANGED <<compileVars, builderVars, loaderVars, mapping, paging, pool>>

\* the callback throws an error of its own
callbackThrows ==
  /\ tx.step = "callback"
  /\ tx' = [tx EXCEPT !.step = "catch", !.callback = "failed",
                      !.raised = "thrown", !.error = "thrown"]
  /\ UNCHANGED <<compileVars, builderVars, loaderVars, mapping, paging, pool>>

\* await client.query('COMMIT'); return result (finally: client.release())
commit(ok) ==
  /\ tx.step = "commit"
  /\ tx' = Query("COMMIT", ok, [tx EXCEPT !.step = "resolved", !.released = TRUE],
                 [tx EXCEPT !.step = "catch", !.error = "COMMIT"])
  /\ pool' = IF ok THEN Release ELSE pool
  /\ UNCHANGED <<compileVars, builderVars, loaderVars, mapping, paging>>

\* catch (error): await client.query('ROLLBACK'); throw error
\* (finally: client.release()). A rejected ROLLBACK leaves the catch block
\* with its own error before `throw error` is reached
rollback(ok) ==
  /\ tx.step = "catch"
  /\ tx' = Query("ROLLBACK", ok, [tx EXCEPT !.step = "rejected", !.released = TRUE],
                 [tx EXCEPT !.step = "rejected", !.released = TRUE,
                            !.error = "ROLLBACK"])
  /\ pool' = Release
  /\ UNCHANGED <<compileVars, builderVars, loaderVars, mapping, paging>>

\* pool.connect() of execute and executeOne: outside the try block, a failed
\* connect rejects the call with no client acquired
execute_connect(op, connected) ==
  /\ op \in {"execute", "executeOne"}
  /\ NoOperation
  /\ Len(pool.releases) < MaxClients
  /\ pool' = IF connected THEN Acquire(op) ELSE pool
  /\ UNCHANGED <<compileVars, builderVars, loaderVars, mapping, paging, tx>>

\* client.query of execute and executeOne, answered or rejected; the finally
\* block releases the client either way
execute_query(ok) ==
  /\ pool.op \in {"execute", "executeOne"}
  /\ pool' = Release
  /\ UNCHANGED <<compileVars, builderVars, loaderVars, mapping, paging, tx>>

\* pool.connect() of testConnection: inside the try block, a failed connect
\* returns false
testConnection_connect(connected) ==
  /\ NoOperation
  /\ Len(pool.releases) < MaxClients
  /\ pool' = IF connected THEN Acquire("testConnection") ELSE pool
  /\ UNCHANGED <<compileVars, builderVars, loaderVars, mapping, paging, tx>>

\* client.query('SELECT 1') of testConnection: client.release() follows the
\* query inside the try block; the catch block returns false
testConnection_query(ok) ==
  /\ pool.op = "testConnection"
  /\ pool' = IF ok THEN Release ELSE Returned
  /\ UNCHANGED <<compileVars, builderVars, loaderVars, mapping, paging, tx>>

AuxIdle == mapping = MappingIdle /\ paging = PagingIdle /\ tx = TxIdle /\ pool = PoolIdle

\* ------------------------------------------------------------ compiler runs
\* a pending call of the condition compiler: its inputs, no result yet
Pending(conds, s) ==
  [conds |-> conds, start |-> s, done |-> FALSE, single |-> FALSE,
   clause |-> <<>>, params |-> <<>>, nextParamIndex |-> s]

Finished(r, single) ==
  [compiled EXCEPT !.done = TRUE, !.single = single, !.clause = r.clause,
                   !.params = r.params, !.nextParamIndex = r.nextParamIndex]

\* buildSingleCondition called on one condition object with a fresh params
Compile ==
  /\ ~compiled.done
  /\ Len(compiled.conds) = 1
  /\ compiled' = Finished(buildSingleCondition(compiled.conds[1], <<>>,
                                               compiled.start), TRUE)
  /\ UNCHANGED <<builderVars, loaderVars, auxVars>>

\* buildWhereClause called on a list of condition objects
CompileWhere ==
  /\ ~compiled.done
  /\ compiled' = Finished(buildWhereClause(compiled.conds, <<>>,
                                           compiled.start), FALSE)
  /\ UNCHANGED <<builderVars, loaderVars, auxVars>>

CondLists == {<<t>> : t \in TreeSet}
             \cup {<<t, u>> : t \in Kids2 \cup OpLeaves, u \in Kids2 \cup OpLeaves}
             \cup {<<>>}

CompileInit ==
  compiled \in {Pending(conds, s) : conds \in CondLists, s \in 1..MaxStart}

BuilderIdle ==
  /\ whereConditions = <<>>
  /\ havingConditions = <<>>
  /\ groupByFields = <<>>
  /\ limitValue = Undef
  /\ offsetValue = Undef
  /\ query = NoQuery

InitCompile == CompileInit /\ BuilderIdle /\ LoaderIdle /\ AuxIdle
NextCompile == Compile \/ CompileWhere
SpecCompile == InitCompile /\ [][NextCompile]_vars

CompileIdle == compiled = Pending(<<>>, 1)

InitBuilder == BuilderIdle /\ CompileIdle /\ LoaderIdle /\ AuxIdle
NextBuilder ==
  \/ \E c \in BuilderConds : where(c)
  \/ \E c \in BuilderConds : andWhere(c)
  \/ \E c \in OrArgs : orWhere(c)
  \/ \E cs \in ListsOf(BuilderConds) : whereMultiple(cs)
  \/ groupBy(<<"a">>)
  \/ \E c \in HavingConds : having(c)
  \/ \E c \in HavingConds : andHaving(c)
  \/ limit(Num(10))
  \/ offset(Num(20))
  \/ getMany
  \/ \E data \in UpdateData : update(data)
  \/ delete
  \/ count
  \/ \E data \in Batches : insertMany(data)
  \/ \E data \in Batches : createMany(data)
  \/ \E scopes \in {"where", "andWhere"} : \E c \in ScopeConds : scopeMethod(scopes, c)
  \/ \E pagination \in ScopedPaginations : getManyPaginated(pagination)
SpecBuilder == InitBuilder /\ [][NextBuilder]_vars

InitLoader == LoaderInit /\ BuilderIdle /\ CompileIdle /\ AuxIdle
NextLoader ==
  \/ find
  \/ findFails
  \/ skipRelation
  \/ loadRelation
  \/ \E fail \in 1..2 : loadRelationFails(fail)
SpecLoader == InitLoader /\ [][NextLoader]_vars

InitMapping ==
  /\ MappingInit
  /\ BuilderIdle /\ CompileIdle /\ LoaderIdle
  /\ paging = PagingIdle /\ tx = TxIdle /\ pool = PoolIdle
NextMapping == writeEntity \/ readRow
SpecMapping == InitMapping /\ [][NextMapping]_vars

InitPaging == BuilderIdle /\ CompileIdle /\ LoaderIdle /\ AuxIdle
NextPaging ==
  \/ \E path \in PagingPaths : \E options \in PagingInputs :
       \E pagination \in Paginations : paginate(path, options, pagination)
  \/ \E answer \in CountAnswers : countAnswered(answer)
  \/ pageAnswered
  \/ pagingFails
SpecPaging == InitPaging /\ [][NextPaging]_vars

InitTx == BuilderIdle /\ CompileIdle /\ LoaderIdle /\ AuxIdle
NextTx ==
  \/ \E connected \in BOOLEAN : transaction(connected)
  \/ \E ok \in BOOLEAN : begin(ok)
  \/ \E text \in CallbackStatements : \E ok \in BOOLEAN : callbackQuery(text, ok)
  \/ callbackReturns
  \/ callbackThrows
  \/ \E ok \in BOOLEAN : commit(ok)
  \/ \E ok \in BOOLEAN : rollback(ok)
SpecTx == InitTx /\ [][NextTx]_vars

InitPool == BuilderIdle /\ CompileIdle /\ LoaderIdle /\ AuxIdle
NextPool ==
  \/ NextTx
  \/ \E op \in {"execute", "executeOne"} : \E connected \in BOOLEAN :
       execute_connect(op, connected)
  \/ \E ok \in BOOLEAN : execute_query(ok)
  \/ \E connected \in BOOLEAN : testConnection_connect(connected)
  \/ \E ok \in BOOLEAN : testConnection_query(ok)
SpecPool == InitPool /\ [][NextPool]_vars

\* ------------------------------------------------------------ reading a clause
Placeholders(clause) ==
  LET phs == SelectSeq(clause, LAMBDA t : t.t = "ph") IN
  [i \in 1..Len(phs) |-> phs[i].n]

\* the column a placeholder at position p belongs to: the nearest column
\* token on its left
ColumnOf(clause, p) ==
  LET qs == {q \in 1..p : clause[q].t = "col"} IN
  clause[CHOOSE q \in qs : \A r \in qs : r <= q].s

\* the values one field entry binds
EntryValues(e) ==
  IF e.value.k = "undef" THEN {}
  ELSE IF e.value.k = "object"
    THEN UNION {IF o.op \in {"in", "notIn"}
                  THEN {Num(o.val.xs[i]) : i \in 1..Len(o.val.xs)}
                  ELSE IF o.op \in {"isNull", "isNotNull"} THEN {} ELSE {o.val}
                : o \in {e.value.ops[i] : i \in 1..Len(e.value.ops)}}
  ELSE {e.value}

RECURSIVE Bindings(_)
\* every <<column, value>> pair written anywhere in a condition tree
Bindings(tree) ==
  UNION {{<<getColumnName(tree.fields[i].field), v>> : v \in EntryValues(tree.fields[i])}
         : i \in 1..Len(tree.fields)}
  \cup (UNION {Bindings(tree.AND[i]) : i \in 1..Len(tree.AND)})
  \cup (UNION {Bindings(tree.OR[i]) : i \in 1..Len(tree.OR)})

RECURSIVE IsEmptyTree(_)
\* nothing in the object: no defined field value, and every child of its
\* AND / OR list (if any) is empty in turn
IsEmptyTree(tree) ==
  /\ \A i \in 1..Len(tree.fields) : tree.fields[i].value.k = "undef"
  /\ \A i \in 1..Len(tree.AND) : IsEmptyTree(tree.AND[i])
  /\ \A i \in 1..Len(tree.OR) : IsEmptyTree(tree.OR[i])

IsJunction(t) == t = Kw("AND") \/ t = Kw("OR")
IsListOperator(t) == t = Kw("IN") \/ t = Kw("NOT IN")

\* an AND / OR token with nothing on one side of it
Dangling(clause) ==
  \E p \in 1..Len(clause) :
    /\ IsJunction(clause[p])
    /\ \/ p = 1
       \/ p = Len(clause)
       \/ clause[p - 1] = LP
       \/ IsJunction(clause[p - 1])
       \/ clause[p + 1] = RP

\* a pair of parentheses around nothing that is not the list of IN / NOT IN
BareParens(clause) ==
  \E p \in 1..(Len(clause) - 1) :
    /\ clause[p] = LP
    /\ clause[p + 1] = RP
    /\ (p = 1 \/ ~IsListOperator(clause[p - 1]))

\* ------------------------------------------------------------ claims: compiler
MixedExample ==
  Node(<<Entry("a", Num(1))>>, FALSE, <<>>, TRUE,
       <<Fields(<<Entry("b", Num(2))>>), Fields(<<Entry("c", Num(3))>>)>>)
MixedExampleClause ==
  <<Col("a"), Kw("="), Ph(1), Kw("AND"), LP, Col("b"), Kw("="), Ph(2), Kw("OR"),
    Col("c"), Kw("="), Ph(3), RP>>
MixedExampleAlt ==
  <<LP, Col("b"), Kw("="), Ph(1), Kw("OR"), Col("c"), Kw("="), Ph(2), RP,
    Kw("AND"), Col("a"), Kw("="), Ph(3)>>

\* C1: a condition object holding field entries beside an OR / AND list keeps
\* every part: {a: 1, OR: [{b: 2}, {c: 3}]} at start index 1 compiles to
\* a = $1 AND (b = $2 OR c = $3) with params [1,2,3] (or the same with the
\* two parts in the other order), and no field entry with a defined value
\* that sits beside a non-empty AND / OR list is missing from the clause or
\* from params.
C1_MixedKeepsEveryPart ==
  (compiled.done /\ compiled.single) =>
    LET tree == compiled.conds[1] IN
    /\ (tree = MixedExample /\ compiled.start = 1) =>
         \/ /\ compiled.clause = MixedExampleClause
            /\ compiled.params = <<Num(1), Num(2), Num(3)>>
         \/ /\ compiled.clause = MixedExampleAlt
            /\ compiled.params = <<Num(2), Num(3), Num(1)>>
    /\ (tree.hasAND \/ tree.hasOR) =>
         \A i \in 1..Len(tree.fields) :
           tree.fields[i].value.k = "num" =>
             /\ \E p \in 1..Len(compiled.clause) :
                  compiled.clause[p] = Col(getColumnName(tree.fields[i].field))
             /\ \E q \in 1..Len(compiled.params) :
                  compiled.params[q] = tree.fields[i].value

\* C5: the placeholders of a compiled tree are s, s+1, ..., s+k-1 in order of
\* appearance, params holds exactly k values, the i-th of them is a value the
\* tree binds to the column of the i-th placeholder, and the next index is
\* s+k.
C5_ContiguousPlaceholders ==
  compiled.done =>
    LET phs == Placeholders(compiled.clause)
        k == Len(phs)
        all == UNION {Bindings(compiled.conds[i]) : i \in 1..Len(compiled.conds)}
    IN /\ phs = [i \in 1..k |-> compiled.start + i - 1]
       /\ Len(compiled.params) = k
       /\ compiled.nextParamIndex = compiled.start + k
       /\ \A p \in 1..Len(compiled.clause) :
            compiled.clause[p].t = "ph" =>
              <<ColumnOf(compiled.clause, p),
                compiled.params[compiled.clause[p].n - compiled.start + 1]>> \in all

\* a tree with at least three placeholders, two of them in one IN list
C5_Witness ==
  /\ compiled.done
  /\ compiled.start = 2
  /\ Len(Placeholders(compiled.clause)) >= 3
  /\ \E p \in 1..Len(compiled.clause) : compiled.clause[p] = Comma

\* C7: an empty node (no defined field value, every AND / OR child empty)
\* compiles to an empty clause and binds nothing; no compiled clause has an
\* AND / OR token with a missing operand or a bare ().
C7_EmptyNodesVanish ==
  (compiled.done /\ compiled.single) =>
    /\ IsEmptyTree(compiled.conds[1]) =>
         /\ compiled.clause = <<>>
         /\ compiled.params = <<>>
         /\ compiled.nextParamIndex = compiled.start
    /\ ~Dangling(compiled.clause)
    /\ ~BareParens(compiled.clause)

\* an empty AND list compiled beside a non-empty sibling inside an OR list
C7_Witness ==
  /\ compiled.done
  /\ compiled.single
  /\ compiled.conds[1] = OrNode(<<AndNode(<<>>), Fields(<<Entry("a", Num(1))>>)>>)
  /\ compiled.clause = <<LP, Col("a"), Kw("="), Ph(compiled.start), RP>>

\* ------------------------------------------------------------ claims: statements
\* the highest placeholder number of a statement, 0 when it has none
HighestPlaceholder(sql) ==
  LET ns == {sql[p].n : p \in {q \in 1..Len(sql) : sql[q].t = "ph"}} \cup {0} IN
  CHOOSE n \in ns : \A m \in ns : m <= n

KeywordAt(sql, kw) == {p \in 1..Len(sql) : sql[p] = Kw(kw)}
Before(sql, kw1, kw2) ==
  \A p \in KeywordAt(sql, kw1), q \in KeywordAt(sql, kw2) : p < q

ListBindings(conds) == UNION {Bindings(conds[i]) : i \in 1..Len(conds)}
DataBindings ==
  UNION {{<<getColumnName(d[i].field), d[i].value>> : i \in 1..Len(d)} : d \in UpdateData}

\* C4: the highest placeholder number of a COUNT statement equals the length
\* of its params list, for every builder state (WHERE with GROUP BY, with or
\* without HAVING, included).
C4_CountPlaceholderRule ==
  query.kind = "count" => HighestPlaceholder(query.sql) = Len(query.params)

\* C6: in every SELECT, UPDATE and DELETE statement the placeholders are
\* $1..$n in order of appearance with n = Len(params); the clauses come in
\* the order SET, WHERE, HAVING, LIMIT, OFFSET; the value bound to each
\* placeholder is the one its clause holds for it (the SET value or the
\* condition value of its column, the limit after LIMIT, the offset after
\* OFFSET).
C6_SingleRunningCounter ==
  query.kind \in {"select", "update", "delete"} =>
    LET sql == query.sql
        phs == Placeholders(sql)
        n == Len(phs)
    IN /\ phs = [i \in 1..n |-> i]
       /\ Len(query.params) = n
       /\ Before(sql, "SET", "WHERE")
       /\ Before(sql, "WHERE", "HAVING")
       /\ Before(sql, "WHERE", "LIMIT")
       /\ Before(sql, "HAVING", "LIMIT")
       /\ Before(sql, "LIMIT", "OFFSET")
       /\ Before(sql, "WHERE", "OFFSET")
       /\ Before(sql, "HAVING", "OFFSET")
       /\ \A p \in 1..Len(sql) :
            sql[p].t = "ph" =>
              IF sql[p - 1] = Kw("LIMIT") THEN query.params[sql[p].n] = limitValue
              ELSE IF sql[p - 1] = Kw("OFFSET") THEN query.params[sql[p].n] = offsetValue
              ELSE IF KeywordAt(sql, "WHERE") # {}
                        /\ \A q \in KeywordAt(sql, "WHERE") : p < q
                THEN <<ColumnOf(sql, p), query.params[sql[p].n]>> \in DataBindings
              ELSE IF KeywordAt(sql, "HAVING") # {}
                        /\ \A q \in KeywordAt(sql, "HAVING") : p > q
                THEN <<ColumnOf(sql, p), query.params[sql[p].n]>>
                       \in ListBindings(havingConditions)
              ELSE <<ColumnOf(sql, p), query.params[sql[p].n]>>
                     \in ListBindings(whereConditions) \cup DataBindings

\* a SELECT with WHERE, HAVING, LIMIT and OFFSET all binding parameters
C6_Witness ==
  /\ query.kind = "select"
  /\ KeywordAt(query.sql, "WHERE") # {}
  /\ KeywordAt(query.sql, "HAVING") # {}
  /\ KeywordAt(query.sql, "LIMIT") # {}
  /\ KeywordAt(query.sql, "OFFSET") # {}
  /\ Len(query.params) >= 5

\* ------------------------------------------------------------ claims: relation loading
RootRecords == 1..Len(db["users"])
SentFor(path) == SelectSeq(log, LAMBDA e : e.path = path)
\* the executor answered every statement sent for the relation at this path
Materialized(path) ==
  /\ Len(SentFor(path)) > 0
  /\ \A i \in 1..Len(SentFor(path)) : SentFor(path)[i].ok
ExecutorRaisedInBatch == \E i \in 1..Len(log) : log[i].path # <<>> /\ ~log[i].ok

\* C2: once the executor has raised on a statement of a relation batch, the
\* find call is rejected: it neither goes on loading nor resolves.
C2_ExecutorFailureReachesCaller ==
  ExecutorRaisedInBatch => stage = "rejected"

\* C3: the list a BelongsToMany relation attaches to a record never holds
\* the same target row twice, whatever rows the pivot table holds.
C3_NoDuplicateTarget ==
  \A r \in 1..Len(heap) :
    heap[r].rels["tags"].kind = "many" =>
      \A i \in 1..Len(heap[r].rels["tags"].refs) :
        \A j \in 1..Len(heap[r].rels["tags"].refs) :
          i # j => heap[r].rels["tags"].refs[i] # heap[r].rels["tags"].refs[j]

\* the rows of a child table that point at a record, in table order
RowsOf(table, r) ==
  SelectSeq(db[table], LAMBDA row : row.user_id = heap[r].fields["id"])

IsRow(ref, row) ==
  /\ heap[ref].fields["id"] = row.id
  /\ heap[ref].fields["userId"] = row.user_id

\* C8: after a HasMany relation is materialized every record carries the
\* fetched rows whose foreign key equals its local key, all of them and in
\* the order of the query (the empty list if there is none); after a HasOne
\* relation is materialized every record carries one matching row, or null
\* if there is none.
C8_HasRelationsGroupedByKey ==
  /\ Materialized(<<"posts">>) =>
       \A r \in RootRecords :
         /\ heap[r].rels["posts"].kind = "many"
         /\ Len(heap[r].rels["posts"].refs) = Len(RowsOf("posts", r))
         /\ \A i \in 1..Len(RowsOf("posts", r)) :
              IsRow(heap[r].rels["posts"].refs[i], RowsOf("posts", r)[i])
  /\ Materialized(<<"profile">>) =>
       \A r \in RootRecords :
         IF Len(RowsOf("profiles", r)) = 0
           THEN heap[r].rels["profile"] = NullRelation
           ELSE /\ heap[r].rels["profile"].kind = "one"
                /\ \E i \in 1..Len(RowsOf("profiles", r)) :
                     IsRow(heap[r].rels["profile"].refs[1], RowsOf("profiles", r)[i])

\* two records, the first with every row of the child table, the second
\* with none
C8_Witness ==
  /\ stage = "resolved"
  /\ Materialized(<<"posts">>)
  /\ Materialized(<<"profile">>)
  /\ Len(db["users"]) = 2
  /\ Len(heap[1].rels["posts"].refs) = MaxRows
  /\ heap[2].rels["posts"] = Many(<<>>)
  /\ heap[1].rels["profile"].kind = "one"
  /\ heap[2].rels["profile"] = NullRelation

Last(s) == s[Len(s)]

\* C9: the statements sent for one relation at one nesting level are at most
\* one (two for BelongsToMany: the pivot table, then the target table),
\* whatever the number of records.
C9_OneQueryPerRelation ==
  \A i \in 1..Len(log) :
    IF log[i].path # <<>> /\ Last(log[i].path) = "tags"
      THEN /\ Len(SentFor(log[i].path)) <= 2
           /\ SentFor(log[i].path)[1].table = "user_tags"
           /\ Len(SentFor(log[i].path)) = 2 => SentFor(log[i].path)[2].table = "tags"
      ELSE Len(SentFor(log[i].path)) = 1

C9_Witness ==
  /\ stage = "resolved"
  /\ Len(db["users"]) = MaxRecords
  /\ Len(SentFor(<<"tags">>)) = 2
  /\ \A r \in RootRecords : Len(heap[r].rels["tags"].refs) > 0

RootQueryAnswered == Len(log) > 0 /\ log[1].ok
HasKey(key) == \E r \in 1..Len(heap) : r \in RootRecords /\ heap[r].fields[key].k = "num"

\* C10: a requested name the owning entity does not declare (or an owning
\* entity that is not registered) fails nothing and sends no statement, and
\* every declared relation of the request is still loaded, before or after it.
C10_UnknownRelationSkippedAlone ==
  /\ stage = "rejected" => ~RootQueryAnswered
  /\ \A i \in 1..Len(log) :
       log[i].path # <<>> => /\ Last(log[i].path) # "ghost"
                             /\ "users" \in registered
  /\ (RootQueryAnswered /\ "users" \notin registered) =>
       stage = "resolved" /\ Len(log) = 1
  /\ (stage = "resolved" /\ "users" \in registered /\ HasKey("id")) =>
       \A i \in 1..Len(request) :
         (/\ request[i].name \in Declared
          /\ request[i].load # "false"
          /\ request[i].name = "team" => HasKey("teamId"))
           => Len(SentFor(<<request[i].name>>)) > 0

C10_Witness ==
  /\ stage = "resolved"
  /\ request = <<Yes("ghost"), Yes("posts")>>
  /\ Warn("relation not found", "ghost") \in diag
  /\ Materialized(<<"posts">>)
  /\ Len(heap[1].rels["posts"].refs) > 0

RECURSIVE RequestDepth(_)
\* the levels the caller wrote: 0 for no entry, 1 for entries that are all
\* true or false, one more for each nested object below
RequestDepth(options) ==
  IF Len(options) = 0 THEN 0
  ELSE LET deeper == {RequestDepth(options[i].nested) : i \in 1..Len(options)}
       IN 1 + CHOOSE d \in deeper : \A e \in deeper : e <= d

Ended == stage \in {"resolved", "rejected"}

RECURSIVE Work(_, _)
\* the loop rounds the entries from position i on can still cost: one for
\* the entry, and those of the entries written under it
Work(options, i) ==
  IF i > Len(options) THEN 0
  ELSE 1 + Work(options[i].nested, 1) + Work(options, i + 1)

RECURSIVE WorkLeft(_)
WorkLeft(stk) ==
  IF Len(stk) = 0 THEN 0
  ELSE Work(Head(stk).options, Head(stk).i) + WorkLeft(Tail(stk))

\* the steps the call can still take
Remaining ==
  IF stage = "idle" THEN 1 + Work(request, 1)
  ELSE IF stage = "loading" THEN WorkLeft(stack)
  ELSE 0

\* C11: the find call always ends: every step of it uses up at least one of
\* the finitely many rounds the caller's request stands for, and the call is
\* over when none is left; and no statement is sent at a nesting level below
\* the deepest level of the caller's request, even when the rows of a
\* self-referencing relation point at themselves.
C11_BoundedByRequestDepth ==
  /\ [](\A i \in 1..Len(log) : Len(log[i].path) <= RequestDepth(request))
  /\ [](Ended <=> Remaining = 0)
  /\ [][Remaining' < Remaining]_vars

\* user 1 is its own lead; two levels were asked for and two were loaded
C11_Witness ==
  /\ stage = "resolved"
  /\ request = <<With("lead", <<Yes("lead")>>)>>
  /\ Materialized(<<"lead">>)
  /\ Materialized(<<"lead", "lead">>)
  /\ \E r \in 1..Len(heap) :
       /\ heap[r].rels["lead"].kind = "one"
       /\ heap[heap[r].rels["lead"].refs[1]].rels["lead"].kind = "one"
       /\ heap[heap[heap[r].rels["lead"].refs[1]].rels["lead"].refs[1]].fields["id"]
            = heap[r].fields["id"]

\* ------------------------------------------------------------ claims: insertMany
\* the columns a batch names, whatever the row
BatchColumns(data) ==
  UNION {{getColumnName(data[r][i].field) : i \in 1..Len(data[r])} : r \in 1..Len(data)}

ColumnList(sql) ==
  LET cols == SelectSeq(sql, LAMBDA t : t.t = "col") IN [i \in 1..Len(cols) |-> cols[i].s]

Rank(col) == CHOOSE i \in 1..Len(ColumnOrder) : ColumnOrder[i] = col

AfterValues(sql, p) == \E v \in KeywordAt(sql, "VALUES") : v < p

\* the number of the VALUES tuple the token at position p is in
TupleAt(sql, p) == Cardinality({q \in 1..p : sql[q] = LP /\ AfterValues(sql, q)})

\* the value a row gives a column: that of the last key mapped to it, null
\* if the row has no such key
RowValue(row, col) ==
  IF \E i \in 1..Len(row) : getColumnName(row[i].field) = col
    THEN row[CHOOSE i \in 1..Len(row) :
               /\ getColumnName(row[i].field) = col
               /\ \A j \in (i + 1)..Len(row) : getColumnName(row[j].field) # col].value
    ELSE Null

InsertManyRule(data, q) ==
  LET columns == ColumnList(q.sql)
      width == Len(columns)
  IN /\ q.kind = "insertMany"
     /\ {columns[c] : c \in 1..width} = BatchColumns(data)
     /\ \A c \in 1..(width - 1) : Rank(columns[c]) < Rank(columns[c + 1])
     /\ TupleAt(q.sql, Len(q.sql)) = Len(data)
     /\ Placeholders(q.sql) = [m \in 1..(Len(data) * width) |-> m]
     /\ \A p \in 1..Len(q.sql) :
          q.sql[p].t = "ph" => TupleAt(q.sql, p) = ((q.sql[p].n - 1) \div width) + 1
     /\ Len(q.params) = Len(data) * width
     /\ \A r \in 1..Len(data) : \A c \in 1..width :
          q.params[(r - 1) * width + c] = RowValue(data[r], columns[c])

C13_EmptyBatchRejected ==
  [][insertMany(<<>>) => (query' = Thrown /\ query'.sql = <<>>)]_vars

C13_Witness == query = Thrown

\* C14: Repository.createMany on an empty array resolves to the empty array
\* and hands no statement to the executor.
C14_CreateManyEmpty ==
  [][createMany(<<>>) => (query' = ResolvedEmpty /\ query'.sql = <<>>)]_vars

C14_Witness == query = ResolvedEmpty

\* ------------------------------------------------------------ claims: column mapping
\* C15: for every declared field f of every model, the column of f (its
\* override, else its snake-case form) is read back as f, and an entity
\* written to a row and read back holds the same value under every declared
\* field.
C15_MappingRoundTrip ==
  mapping.step = "read" =>
    \A i \in 1..Len(mapping.fieldsDefinition) :
      /\ FieldNameOf(columnToFieldMap(mapping.fieldsDefinition),
                     getColumnNameDef(mapping.fieldsDefinition[i].field,
                                      mapping.fieldsDefinition[i]))
           = mapping.fieldsDefinition[i].field
      /\ Has(mapping.back, mapping.fieldsDefinition[i].field)
      /\ ValueOf(mapping.back, mapping.fieldsDefinition[i].field)
           = ValueOf(mapping.entity, mapping.fieldsDefinition[i].field)

\* ------------------------------------------------------------ claims: pagination
\* the least number of pages of pageSize items that hold totalItems items
PagesNeeded(totalItems, pageSize) ==
  CHOOSE k \in 0..totalItems : k * pageSize >= totalItems
                                /\ \A j \in 0..(k - 1) : j * pageSize < totalItems

\* C16: for page >= 1 and pageSize >= 1 a paginated call reports
\* totalPages = ceil(totalItems / pageSize), hasNextPage = (page < totalPages)
\* and hasPreviousPage = (page > 1), totalItems being the answer to the count
\* built from the call's own filter; hasNextPage is false on the last page
\* and on every page beyond it.
C16_PaginationArithmetic ==
  paging.step = "done" =>
    /\ paging.countQuery = buildCountQuery(paging.options.where, paging.options.groupBy,
                                           paging.options.having)
    /\ paging.result.totalItems = paging.totalItems
    /\ paging.result.totalPages
         = PagesNeeded(paging.totalItems, paging.pagination.pageSize)
    /\ paging.result.hasNextPage
         = (paging.pagination.page < paging.result.totalPages)
    /\ paging.result.hasPreviousPage = (paging.pagination.page > 1)
    /\ (paging.pagination.page * paging.pagination.pageSize >= paging.totalItems
          => ~paging.result.hasNextPage)

\* a page beyond the last one of a count that does not fill its last page
C16_Witness ==
  /\ paging.step = "done"
  /\ paging.totalItems = 5
  /\ paging.pagination.pageSize = 2
  /\ paging.pagination.page = 3
  /\ paging.result.totalPages = 3
  /\ ~paging.result.hasNextPage

\* ------------------------------------------------------------ claims: scopes
\* the builder holds what a chain of scope methods leaves in it: scope
\* conditions only, and at least one
ScopesApplied ==
  /\ Len(whereConditions) > 0
  /\ \A i \in 1..Len(whereConditions) : whereConditions[i] \in ScopeConds

\* every condition of the list before the step is in the list after it
KeepsConditions ==
  \A i \in 1..Len(whereConditions) :
    \E j \in 1..Len(whereConditions') : whereConditions'[j] = whereConditions[i]

\* C17: a scope defined as qb.where(condition), called on a scoped builder
\* that earlier scopes of the chain have filled, keeps the conditions of those
\* scopes and adds its own.
C17_WhereScopesAccumulate ==
  [][\A c \in ScopeConds :
       (ScopesApplied /\ scopeMethod("where", c))
         => (KeepsConditions /\ whereConditions'[Len(whereConditions')] = c)]_vars

\* the columns of the WHERE clause of a statement, in order of appearance
WhereColumns(sql) ==
  LET cols == SelectSeq(sql, LAMBDA t : t.t = "col") IN
  [i \in 1..Len(cols) |-> cols[i].s]

RECURSIVE FieldColumns(_)
\* the columns a list of field-only conditions names, in order
FieldColumns(conds) ==
  IF Len(conds) = 0 THEN <<>>
  ELSE [i \in 1..Len(Head(conds).fields) |-> getColumnName(Head(conds).fields[i].field)]
         \o FieldColumns(Tail(conds))

\* C18: andWhere with a non-empty condition appends it to the conditions
\* already there, whatever calls came before, and removes none; a SELECT
\* built from scope conditions names them in call order, joined by AND.
C18_AndWhereOnlyAdds ==
  /\ [][\A c \in BuilderConds :
          (andWhere(c) /\ ~isEmptyCondition(c))
            => whereConditions' = Append(whereConditions, c)]_vars
  /\ []((query.kind = "select" /\ ScopesApplied
           /\ havingConditions = <<>> /\ groupByFields = <<>>)
          => /\ WhereColumns(query.sql) = FieldColumns(whereConditions)
             /\ Cardinality(KeywordAt(query.sql, "AND")) = Len(whereConditions) - 1
             /\ Cardinality(KeywordAt(query.sql, "OR")) = 0)

\* a SELECT after a chain of three andWhere scopes
C18_Witness ==
  /\ query.kind = "select"
  /\ whereConditions = <<CondA, CondB, CondA>>

\* ------------------------------------------------------------ claims: transactions
SentText(text) == \E i \in 1..Len(tx.sent) : tx.sent[i] = text

\* C19: a transaction sends BEGIN first and runs the callback after it; COMMIT
\* is sent exactly when the callback succeeds; if the callback fails, ROLLBACK
\* is sent, COMMIT is not, and the call rejects with the callback's error.
C19_TransactionOutcome ==
  /\ (tx.callback # "pending" \/ Len(tx.sent) > 0) => tx.sent[1] = "BEGIN"
  /\ tx.step \in {"resolved", "rejected"} =>
       /\ SentText("COMMIT") <=> tx.callback = "succeeded"
       /\ tx.callback = "failed" =>
            /\ SentText("ROLLBACK")
            /\ tx.step = "rejected"
            /\ tx.error = tx.raised

\* ------------------------------------------------------------ claims: empty clauses
\* a WHERE or HAVING keyword with no condition after it: the statement ends
\* there, or the next token opens no condition (a condition starts with a
\* column or an opening parenthesis)
EmptyClauseAfter(sql, keyword) ==
  \E p \in KeywordAt(sql, keyword) :
    \/ p = Len(sql)
    \/ ~(sql[p + 1].t = "col" \/ sql[p + 1] = LP)

\* C20: no SELECT, COUNT, UPDATE or DELETE statement holds a WHERE or HAVING
\* keyword followed by an empty clause; when every condition of the builder
\* compiles to nothing the keyword is left out.
C20_NoEmptyClauseKeyword ==
  query.kind \in {"select", "count", "update", "delete"} =>
    /\ ~EmptyClauseAfter(query.sql, "WHERE")
    /\ ~EmptyClauseAfter(query.sql, "HAVING")

\* ------------------------------------------------------------ claims: relation keys
\* the loop is at a declared relation of one of the given types
AtRelationOf(types) ==
  /\ stage = "loading"
  /\ CurrentEntry.load # "false"
  /\ CurrentRelation # NoRelation
  /\ CurrentRelation.type \in types

\* C21: once a BelongsTo or BelongsToMany relation has been loaded for a
\* batch, every record of the batch carries the relation key: the match or
\* null for BelongsTo, a list for BelongsToMany, also when no record has a
\* foreign-key value or the pivot query returns no row.
C21_BelongsKeysAlwaysSet ==
  [][(AtRelationOf({"belongsTo", "belongsToMany"}) /\ loadRelation)
       => \A i \in 1..Len(Top.records) :
            heap'[Top.records[i]].rels[CurrentEntry.name].kind
              \in (IF CurrentRelation.type = "belongsTo" THEN {"null", "one"}
                                                         ELSE {"many"})]_vars

\* ------------------------------------------------------------ claims: key lists
\* C22: the key list bound into the IN clause of a relation query holds each
\* key value at most once, however many records share that value.
C22_DistinctKeysInList ==
  \A i \in 1..Len(log) :
    log[i].path # <<>> =>
      \A p \in 1..Len(log[i].stmt.params) : \A q \in 1..Len(log[i].stmt.params) :
        p # q => log[i].stmt.params[p] # log[i].stmt.params[q]

\* ------------------------------------------------------------ claims: unknown target
\* C23: a requested relation whose target entity is not registered is
\* skipped: no statement is sent for it and no record is touched, a
\* diagnostic is emitted, and the loop moves on to the sibling relations.
C23_UnknownTargetSkipped ==
  [][(/\ AtRelationOf({"hasOne", "hasMany", "belongsTo", "belongsToMany"})
      /\ CurrentRelation.targetModel \notin registered
      /\ loadRelation)
       => /\ log' = log
          /\ heap' = heap
          /\ Warn("target not found", CurrentRelation.targetModel) \in diag'
          /\ stack' = Unwind(<<Advanced(Top)>> \o Tail(stack))]_vars

\* ------------------------------------------------------------ claims: nested order
RECURSIVE OptionAt(_, _)
\* the entry of the request a path of relation names leads to
OptionAt(options, path) ==
  LET entry == options[CHOOSE i \in 1..Len(options) : options[i].name = Head(path)]
  IN IF Len(path) = 1 THEN entry ELSE OptionAt(entry.nested, Tail(path))

Parent(path) == SubSeq(path, 1, Len(path) - 1)

\* the rows the database gave for a logged statement
AnswerTo(e) == execute(db, [table |-> e.table, stmt |-> e.stmt])

\* C24: a child-level relation query is sent only after the queries of the
\* relation it hangs under have all been sent and answered, only when the
\* request for that parent relation is a nested map, and only when the
\* parent level produced at least one related record.
C24_ChildAfterParent ==
  \A i \in 1..Len(log) :
    Len(log[i].path) >= 2 =>
      /\ \E j \in 1..(i - 1) : log[j].path = Parent(log[i].path)
      /\ \A j \in 1..Len(log) :
           log[j].path = Parent(log[i].path)
             => j < i /\ log[j].ok
      /\ Len(AnswerTo(Last(SentFor(Parent(log[i].path))))) > 0
      /\ OptionAt(request, Parent(log[i].path)).load = "object"

\* the users of two posts loaded under a nested request for posts
C24_Witness ==
  /\ stage = "resolved"
  /\ request = <<With("posts", <<Yes("user")>>)>>
  /\ Len(SentFor(<<"posts", "user">>)) = 1
  /\ Len(AnswerTo(SentFor(<<"posts">>)[1])) = 2

\* ------------------------------------------------------------ claims: literal values
IsLiteral(value) == value.k \in {"num", "null", "array", "date"}

\* the clause holds column = $N for the entry and params binds its value there
EqualityFor(e) ==
  \E p \in 1..(Len(compiled.clause) - 2) :
    /\ compiled.clause[p] = Col(getColumnName(e.field))
    /\ compiled.clause[p + 1] = Kw("=")
    /\ compiled.clause[p + 2].t = "ph"
    /\ compiled.clause[p + 2].n - compiled.start + 1 \in 1..Len(compiled.params)
    /\ compiled.params[compiled.clause[p + 2].n - compiled.start + 1] = e.value

\* C25: in a condition object of field entries, every defined value that is
\* not a plain operator object (a number, null, an array, a Date) compiles to
\* column = $N with that value bound as its parameter; no such entry is
\* left out of the clause.
C25_LiteralMeansEquality ==
  (compiled.done /\ compiled.single
     /\ ~compiled.conds[1].hasAND /\ ~compiled.conds[1].hasOR) =>
    \A i \in 1..Len(compiled.conds[1].fields) :
      IsLiteral(compiled.conds[1].fields[i].value)
        => EqualityFor(compiled.conds[1].fields[i])

\* ------------------------------------------------------------ claims: empty lists
\* an IN / NOT IN followed by a parenthesised list of nothing
EmptyInList(clause) ==
  \E p \in 1..(Len(clause) - 2) :
    /\ IsListOperator(clause[p])
    /\ clause[p + 1] = LP
    /\ clause[p + 2] = RP

\* C26: no compiled clause holds an empty parenthesised list after IN or
\* NOT IN; an in / notIn operator with an empty array compiles to valid
\* syntax (the compiler has no rejecting outcome).
C26_NoEmptyInList ==
  compiled.done => ~EmptyInList(compiled.clause)

\* ------------------------------------------------------------ claims: count and select
\* the clauses of a statement: what follows its table name, the closing
\* `) as grouped_count` of a grouped count left off
ClausesOf(sql) ==
  LET from == CHOOSE p \in 1..Len(sql) : sql[p] = TableName
      last == IF sql[Len(sql)] = Kw("as grouped_count") THEN Len(sql) - 2 ELSE Len(sql)
  IN SubSeq(sql, from + 1, last)

\* C27: the COUNT statement of a builder state holds the same WHERE, GROUP BY
\* and HAVING clauses as the SELECT statement of that state (LIMIT and OFFSET
\* aside), also when HAVING conditions are held and no GROUP BY is set.
C27_CountClausesAsSelect ==
  query.kind = "count" =>
    ClausesOf(query.sql)
      = ClausesOf(buildSelectQuery(whereConditions, groupByFields, havingConditions,
                                   Undef, Undef).sql)

\* ------------------------------------------------------------ claims: orWhere
\* rows to read a filter on: a value for column a and one for column b
FilterRows == [a : 0..1, b : {0, 2}]

\* one field entry read on a row: equality, or membership for an in list
EntryHolds(e, row) ==
  IF e.value.k = "num" THEN row[e.field] = e.value.n
  ELSE \A i \in 1..Len(e.value.ops) :
         e.value.ops[i].op = "in"
           => \E j \in 1..Len(e.value.ops[i].val.xs) :
                row[e.field] = e.value.ops[i].val.xs[j]

RECURSIVE Holds(_, _)
\* what a condition object asks of a row: its OR list any, its AND list all,
\* its field entries all
Holds(tree, row) ==
  IF tree.hasAND THEN \A i \in 1..Len(tree.AND) : Holds(tree.AND[i], row)
  ELSE IF tree.hasOR THEN \E i \in 1..Len(tree.OR) : Holds(tree.OR[i], row)
  ELSE \A i \in 1..Len(tree.fields) : EntryHolds(tree.fields[i], row)

\* a condition list asks all of its conditions
HoldsAll(conds, row) == \A i \in 1..Len(conds) : Holds(conds[i], row)

\* C28: orWhere(C) on a builder holding the filter accumulated by where and
\* andWhere makes C an alternative to that whole filter: a row passes after
\* the call exactly when it passed before or satisfies C.
C28_OrWhereWholeFilter ==
  [][\A c \in OrArgs :
       (ScopesApplied /\ ~isEmptyCondition(c) /\ orWhere(c))
         => \A row \in FilterRows :
              HoldsAll(whereConditions', row)
                <=> (HoldsAll(whereConditions, row) \/ Holds(c, row))]_vars

\* ------------------------------------------------------------ claims: pool clients
\* C29: every client an adapter operation (execute, executeOne, transaction,
\* testConnection) acquired has been released exactly once when the operation
\* is over, whether its query succeeded or failed; no sequence of operations
\* leaves a client checked out, and no client is released twice.
C29_ClientsReleasedOnce ==
  /\ \A i \in 1..Len(pool.releases) : pool.releases[i] <= 1
  /\ NoOperation => \A i \in 1..Len(pool.releases) : pool.releases[i] = 1

\* ------------------------------------------------------------ claims: paginated frame
\* C30: getManyPaginated on a scoped builder leaves the builder as it was: a
\* getMany issued after the call builds the statement it would have built
\* before it, with the same limit and offset or none.
C30_PaginatedLeavesBuilder ==
  [][\A pagination \in ScopedPaginations :
       getManyPaginated(pagination)
         => buildSelectQuery(whereConditions', groupByFields', havingConditions',
                             limitValue', offsetValue')
              = buildSelectQuery(whereConditions, groupByFields, havingConditions,
                                 limitValue, offsetValue)]_vars

====
